---- MODULE Spec2Model ----
(***************************************************************************)
(* A model of the XML-to-JSON conversion engine (utils/converter.ts and    *)
(* utils/workflowConverter.ts): the conversion facade with its cache, the  *)
(* file-type detector, the generic mapper, the Alteryx extractor and the   *)
(* JSON formatter.                                                         *)
(*                                                                         *)
(* Text is a sequence of tokens.  A token is a record [k, n, a]:           *)
(*   k = "text"  : one character n of character data                       *)
(*   k = "open"  : the start tag  <n a1="v1" a2="v2">                      *)
(*   k = "empty" : the empty tag  <n a1="v1"/>                             *)
(*   k = "close" : the end tag    </n>                                     *)
(*   k = "cdo"   : the CDATA opener  <![CDATA[                             *)
(*   k = "cdc"   : the CDATA closer  ]]>                                   *)
(* A tag token stands for its canonical spelling (one space before each    *)
(* attribute, double quotes around each value).  A string of the program   *)
(* that is not XML text (a JSON string, a message) is a sequence of atoms. *)
(***************************************************************************)
EXTENDS Integers, Sequences, FiniteSets, TLC

----------------------------------------------------------------------------
(* Generic helpers                                                         *)

Last(s) == s[Len(s)]

Range(s) == {s[i] : i \in DOMAIN s}

RECURSIVE Flatten(_)
Flatten(ss) == IF ss = <<>> THEN <<>> ELSE Head(ss) \o Flatten(Tail(ss))

SeqsUpTo(S, n) == UNION {[1..m -> S] : m \in 0..n}

----------------------------------------------------------------------------
(* Tokens and strings                                                      *)

T(c) == [k |-> "text", n |-> c, a |-> <<>>]
O(n) == [k |-> "open", n |-> n, a |-> <<>>]
OA(n, a) == [k |-> "open", n |-> n, a |-> a]
E(n) == [k |-> "empty", n |-> n, a |-> <<>>]
EA(n, a) == [k |-> "empty", n |-> n, a |-> a]
C(n) == [k |-> "close", n |-> n, a |-> <<>>]
CDO == [k |-> "cdo", n |-> "", a |-> <<>>]
CDC == [k |-> "cdc", n |-> "", a |-> <<>>]
At(n, v) == [an |-> n, av |-> v]

WhiteSpace == {" ", "\n"}

IsWs(tok) == tok.k = "text" /\ tok.n \in WhiteSpace

\* The spelling of one attribute inside a tag:  name="value"  after a space.
SpellAttrs(a) == Flatten([i \in DOMAIN a |-> <<" ", a[i].an, "=\"", a[i].av, "\"">>])

\* The spelling of a token as a sequence of atoms.
Spell(tok) ==
  CASE tok.k = "text"  -> <<tok.n>>
    [] tok.k = "open"  -> <<"<", tok.n>> \o SpellAttrs(tok.a) \o <<">">>
    [] tok.k = "empty" -> <<"<", tok.n>> \o SpellAttrs(tok.a) \o <<"/>">>
    [] tok.k = "close" -> <<"</", tok.n, ">">>
    [] tok.k = "cdo"   -> <<"<![CDATA[">>
    [] tok.k = "cdc"   -> <<"]]>">>

SpellAll(s) == Flatten([i \in DOMAIN s |-> Spell(s[i])])

\* String.prototype.trim on text: drops the white space at both ends.
RECURSIVE TrimLeft(_)
TrimLeft(s) == IF s # <<>> /\ IsWs(Head(s)) THEN TrimLeft(Tail(s)) ELSE s

RECURSIVE TrimRight(_)
TrimRight(s) ==
  IF s # <<>> /\ IsWs(Last(s)) THEN TrimRight(SubSeq(s, 1, Len(s) - 1)) ELSE s

\* A trim that leaves the leading white space in place.
TrimRightOnly(s) == TrimRight(s)

Trim(s) == TrimRight(TrimLeft(s))

\* String.prototype.trim on a string of atoms.
RECURSIVE TrimAtomsLeft(_)
TrimAtomsLeft(s) ==
  IF s # <<>> /\ Head(s) \in WhiteSpace THEN TrimAtomsLeft(Tail(s)) ELSE s

RECURSIVE TrimAtomsRight(_)
TrimAtomsRight(s) ==
  IF s # <<>> /\ Last(s) \in WhiteSpace
  THEN TrimAtomsRight(SubSeq(s, 1, Len(s) - 1)) ELSE s

TrimAtoms(s) == TrimAtomsRight(TrimAtomsLeft(s))

\* trimmedXml.startsWith('<')
StartsWithTag(s) == s # <<>> /\ Head(s).k \in {"open", "empty", "close", "cdo"}

----------------------------------------------------------------------------
(* processNamespaces and processCDATA                                      *)

\* The replace callback returns the match itself: the text is unchanged.
processNamespaces(xmlString) == xmlString

\* The first CDATA closer at or after position i (0 when there is none).
FirstCloser(s, i) ==
  IF \E j \in i..Len(s) : s[j].k = "cdc"
  THEN CHOOSE j \in i..Len(s) :
         s[j].k = "cdc" /\ \A h \in i..(j - 1) : s[h].k # "cdc"
  ELSE 0

\* /<!\[CDATA\[(.*?)\]\]>/gs : each opener with a later closer is replaced,
\* together with the nearest closer, by what lies between them.
RECURSIVE CDataFrom(_, _)
CDataFrom(s, i) ==
  IF i > Len(s) THEN <<>>
  ELSE IF s[i].k = "cdo" /\ FirstCloser(s, i + 1) # 0
       THEN SubSeq(s, i + 1, FirstCloser(s, i + 1) - 1)
              \o CDataFrom(s, FirstCloser(s, i + 1) + 1)
       ELSE <<s[i]>> \o CDataFrom(s, i + 1)

processCDATA(xmlString) == CDataFrom(xmlString, 1)

----------------------------------------------------------------------------
(* The DOM and the XML parser (DOMParser.parseFromString, 'text/xml')      *)

\* A DOM node.  nodeType: 1 element, 3 text, 4 CDATA section, 9 document.
Node(t, n, a, v, c) ==
  [nodeType |-> t, nodeName |-> n, attributes |-> a, nodeValue |-> v,
   childNodes |-> c]

Element(n, a, c) == Node(1, n, a, <<>>, c)
TextNode(v) == Node(3, "#text", <<>>, v, <<>>)
CDataNode(v) == Node(4, "#cdata-section", <<>>, v, <<>>)
DocumentNode(root) == Node(9, "#document", <<>>, <<>>, <<root>>)

documentElement(doc) == doc.childNodes[1]

\* Appending character c to the children of an element: it extends a text
\* node that ends the list, or starts a new one.
AppendChar(kids, c) ==
  IF kids # <<>> /\ Last(kids).nodeType = 3
  THEN [kids EXCEPT ![Len(kids)].nodeValue = @ \o <<c>>]
  ELSE Append(kids, TextNode(<<c>>))

\* The parser's stack holds the open elements, the innermost last.
AddChild(stack, node) ==
  [stack EXCEPT ![Len(stack)].childNodes = Append(@, node)]

AddChar(stack, c) ==
  [stack EXCEPT ![Len(stack)].childNodes = AppendChar(@, c)]

DuplicateAttr(a) == \E i, j \in DOMAIN a : i # j /\ a[i].an = a[j].an

ParseFail(d) == [ok |-> FALSE, diag |-> <<d>>, root |-> <<>>]

OutsideRoot(root) ==
  IF root = <<>> THEN ParseFail("Start tag expected, '<' not found")
  ELSE ParseFail("Extra content at the end of the document")

\* The well-formedness rules the claims need: one root element, matched and
\* properly nested tags, no character data outside the root, no repeated
\* attribute, CDATA sections closed and inside the root, no stray ]]>.
RECURSIVE ParseAt(_, _, _, _)
ParseAt(s, i, stack, root) ==
  IF i > Len(s)
  THEN IF stack # <<>> THEN ParseFail("Premature end of data in tag")
       ELSE IF root = <<>> THEN ParseFail("Document is empty")
       ELSE [ok |-> TRUE, diag |-> <<>>, root |-> root]
  ELSE LET tok == s[i] IN
    CASE tok.k = "text" ->
           IF stack = <<>>
           THEN IF IsWs(tok) THEN ParseAt(s, i + 1, stack, root)
                ELSE OutsideRoot(root)
           ELSE ParseAt(s, i + 1, AddChar(stack, tok.n), root)
      [] tok.k = "open" ->
           IF stack = <<>> /\ root # <<>> THEN OutsideRoot(root)
           ELSE IF DuplicateAttr(tok.a) THEN ParseFail("Attribute redefined")
           ELSE ParseAt(s, i + 1, Append(stack, Element(tok.n, tok.a, <<>>)), root)
      [] tok.k = "empty" ->
           IF stack = <<>> /\ root # <<>> THEN OutsideRoot(root)
           ELSE IF DuplicateAttr(tok.a) THEN ParseFail("Attribute redefined")
           ELSE IF stack = <<>>
           THEN ParseAt(s, i + 1, stack, <<Element(tok.n, tok.a, <<>>)>>)
           ELSE ParseAt(s, i + 1, AddChild(stack, Element(tok.n, tok.a, <<>>)), root)
      [] tok.k = "close" ->
           IF stack = <<>> THEN OutsideRoot(root)
           ELSE IF Last(stack).nodeName # tok.n
           THEN ParseFail("Opening and ending tag mismatch")
           ELSE IF Len(stack) = 1
           THEN ParseAt(s, i + 1, <<>>, <<stack[1]>>)
           ELSE ParseAt(s, i + 1,
                        AddChild(SubSeq(stack, 1, Len(stack) - 1), Last(stack)),
                        root)
      [] tok.k = "cdo" ->
           IF stack = <<>> THEN OutsideRoot(root)
           ELSE IF FirstCloser(s, i + 1) = 0
           THEN ParseFail("CData section not finished")
           ELSE ParseAt(s, FirstCloser(s, i + 1) + 1,
                        AddChild(stack,
                          CDataNode(SpellAll(SubSeq(s, i + 1, FirstCloser(s, i + 1) - 1)))),
                        root)
      [] tok.k = "cdc" ->
           IF stack = <<>> THEN OutsideRoot(root)
           ELSE ParseFail("Sequence ']]>' not allowed in content")

ParseRun(s) == ParseAt(s, 1, <<>>, <<>>)

WellFormed(s) == ParseRun(s).ok

\* parseFromString never throws: on text that is not well-formed it returns
\* a document holding a parsererror element whose text is the diagnostic.
parseFromString(s) ==
  LET r == ParseRun(s) IN
    IF r.ok THEN DocumentNode(r.root[1])
    ELSE DocumentNode(Element("parsererror", <<>>, <<TextNode(r.diag)>>))

\* The descendants of a node in document order (the node itself excluded).
RECURSIVE Descendants(_)
Descendants(node) ==
  Flatten([i \in DOMAIN node.childNodes |->
             <<node.childNodes[i]>> \o Descendants(node.childNodes[i])])

\* querySelectorAll with a type selector: the descendant elements of that name.
querySelectorAll(node, name) ==
  SelectSeq(Descendants(node), LAMBDA d : d.nodeType = 1 /\ d.nodeName = name)

\* querySelector: the first of them, as a list of at most one node.
querySelector(node, name) ==
  LET all == querySelectorAll(node, name) IN
    IF all = <<>> THEN <<>> ELSE <<all[1]>>

\* textContent: the text of every text and CDATA descendant, concatenated.
textContent(node) ==
  IF node.nodeType \in {3, 4} THEN node.nodeValue
  ELSE Flatten([i \in DOMAIN Descendants(node) |->
                  IF Descendants(node)[i].nodeType \in {3, 4}
                  THEN Descendants(node)[i].nodeValue ELSE <<>>])

\* getAttribute: the value as a list of at most one atom (empty list: null).
getAttribute(node, name) ==
  LET hits == SelectSeq(node.attributes, LAMBDA x : x.an = name) IN
    IF hits = <<>> THEN <<>> ELSE <<hits[1].av>>

----------------------------------------------------------------------------
(* JavaScript values                                                       *)

\* A value is a record [t, s, n, m].  t is the kind: "string" (s holds its
\* atoms), "number" (n), "NaN", "null", "undefined", "function", "object"
\* and "array" (m holds the members in insertion order, as [key, val]), and
\* "throw" for a call that ended in a TypeError instead of a value.
JV(t, s, n, m) == [t |-> t, s |-> s, n |-> n, m |-> m]

Str(s) == JV("string", s, 0, <<>>)
Num(n) == JV("number", <<>>, n, <<>>)
NaN == JV("NaN", <<>>, 0, <<>>)
Null == JV("null", <<>>, 0, <<>>)
Undefined == JV("undefined", <<>>, 0, <<>>)
Function == JV("function", <<>>, 0, <<>>)
Obj(m) == JV("object", <<>>, 0, m)
Arr(m) == JV("array", <<>>, 0, m)
Throw == JV("throw", <<>>, 0, <<>>)
KV(k, v) == [key |-> k, val |-> v]

EmptyObj == Obj(<<>>)

\* The members every object literal inherits from Object.prototype.
ObjectPrototype ==
  {"constructor", "toString", "valueOf", "hasOwnProperty", "isPrototypeOf",
   "propertyIsEnumerable", "toLocaleString"}

HasOwn(o, k) == \E i \in DOMAIN o.m : o.m[i].key = k

OwnIndex(o, k) == CHOOSE i \in DOMAIN o.m : o.m[i].key = k

\* o[k]: the own member, else the inherited one, else undefined.
Get(o, k) ==
  IF HasOwn(o, k) THEN o.m[OwnIndex(o, k)].val
  ELSE IF o.t = "object" /\ k \in ObjectPrototype THEN Function
  ELSE Undefined

\* o[k] = v: an own member keeps its place, a new one goes last.
Set(o, k, v) ==
  IF HasOwn(o, k) THEN [o EXCEPT !.m[OwnIndex(o, k)].val = v]
  ELSE [o EXCEPT !.m = Append(@, KV(k, v))]

\* Object.keys(o).length
KeyCount(o) == Len(o.m)

\* typeof v.push === 'undefined': arrays inherit push, an object has it only
\* as an own member, strings and functions do not have it.
PushUndefined(v) ==
  CASE v.t = "array" -> FALSE
    [] v.t = "object" -> ~HasOwn(v, "push")
    [] OTHER -> TRUE

\* a.push(v) on an array a.
Push(a, v) == [a EXCEPT !.m = Append(@, KV("", v))]

----------------------------------------------------------------------------
(* The generic mapper: xmlToJson                                           *)

\* obj['@attributes'] = {}; obj['@attributes'][name] = value for each one.
RECURSIVE AttrObject(_, _, _)
AttrObject(attrs, j, acc) ==
  IF j > Len(attrs) THEN acc
  ELSE AttrObject(attrs, j + 1, Set(acc, attrs[j].an, Str(<<attrs[j].av>>)))

\* obj as it stands before the children are read.
InitialObj(xml, preserveAttributes) ==
  IF xml.nodeType = 1
  THEN IF preserveAttributes /\ Len(xml.attributes) > 0
       THEN Set(EmptyObj, "@attributes", AttrObject(xml.attributes, 1, EmptyObj))
       ELSE EmptyObj
  ELSE IF xml.nodeType = 3 THEN Str(xml.nodeValue)
  ELSE EmptyObj

AllText(xml) == \A i \in DOMAIN xml.childNodes : xml.childNodes[i].nodeType = 3

\* The joined text with the white space around it left in place.
JoinedTextUntrimmed(xml) ==
  Flatten([i \in DOMAIN xml.childNodes |-> xml.childNodes[i].nodeValue])

\* Array.from(childNodes).map(node => node.nodeValue).join('').trim()
JoinedText(xml) ==
  TrimAtoms(Flatten([i \in DOMAIN xml.childNodes |-> xml.childNodes[i].nodeValue]))

\* obj[nodeName] after the mapped child value v has been added to obj, or
\* Throw when obj[nodeName].push is not a function.
AddMapped(obj, nodeName, v) ==
  IF Get(obj, nodeName).t = "undefined" THEN Set(obj, nodeName, v)
  ELSE LET old == Get(obj, nodeName)
           promoted == IF PushUndefined(old)
                       THEN Set(obj, nodeName, Push(Arr(<<>>), old))
                       ELSE obj
       IN IF Get(promoted, nodeName).t = "array"
          THEN Set(promoted, nodeName, Push(Get(promoted, nodeName), v))
          ELSE Throw

RECURSIVE xmlToJson(_, _)
RECURSIVE MapChildren(_, _, _, _)

\* A loop that passes every text node by.
MapChildrenSkippingText(xml, i, obj, preserveAttributes) ==
  IF i > Len(xml.childNodes) THEN obj
  ELSE LET item == xml.childNodes[i] IN
    IF item.nodeType = 3
    THEN MapChildren(xml, i + 1, obj, preserveAttributes)
    ELSE LET v == xmlToJson(item, preserveAttributes) IN
      IF v.t = "throw" THEN Throw
      ELSE LET next == AddMapped(obj, item.nodeName, v) IN
        IF next.t = "throw" THEN Throw
        ELSE MapChildren(xml, i + 1, next, preserveAttributes)

\* The loop over childNodes from index i on, with obj as built so far.
MapChildren(xml, i, obj, preserveAttributes) ==
  IF i > Len(xml.childNodes) THEN obj
  ELSE LET item == xml.childNodes[i] IN
    IF item.nodeType = 3
    THEN IF TrimAtoms(item.nodeValue) # <<>> /\ KeyCount(obj) = 0
         THEN Str(TrimAtoms(item.nodeValue))
         ELSE MapChildren(xml, i + 1, obj, preserveAttributes)
    ELSE LET v == xmlToJson(item, preserveAttributes) IN
      IF v.t = "throw" THEN Throw
      ELSE LET next == AddMapped(obj, item.nodeName, v) IN
        IF next.t = "throw" THEN Throw
        ELSE MapChildren(xml, i + 1, next, preserveAttributes)

xmlToJson(xml, preserveAttributes) ==
  IF xml.nodeType = 9
  THEN xmlToJson(documentElement(xml), preserveAttributes)
  ELSE LET obj == InitialObj(xml, preserveAttributes) IN
    IF xml.childNodes # <<>> /\ AllText(xml)
    THEN IF JoinedText(xml) # <<>>
         THEN IF KeyCount(obj) = 0 THEN Str(JoinedText(xml))
              ELSE Set(obj, "#text", Str(JoinedText(xml)))
         ELSE obj
    ELSE IF xml.childNodes # <<>>
    THEN MapChildren(xml, 1, obj, preserveAttributes)
    ELSE obj

\* The mapper of the earlier converter.  It takes the flag and does not read
\* it: the attributes are recorded whenever there are any, and the recursive
\* calls pass no flag.
RECURSIVE xmlToJsonLegacy(_, _)
RECURSIVE MapChildrenLegacy(_, _, _)

MapChildrenLegacy(xml, i, obj) ==
  IF i > Len(xml.childNodes) THEN obj
  ELSE LET item == xml.childNodes[i] IN
    IF item.nodeType = 3
    THEN IF TrimAtoms(item.nodeValue) # <<>> /\ KeyCount(obj) = 0
         THEN Str(TrimAtoms(item.nodeValue))
         ELSE MapChildrenLegacy(xml, i + 1, obj)
    ELSE LET v == xmlToJsonLegacy(item, TRUE) IN
      IF v.t = "throw" THEN Throw
      ELSE LET next == AddMapped(obj, item.nodeName, v) IN
        IF next.t = "throw" THEN Throw
        ELSE MapChildrenLegacy(xml, i + 1, next)

xmlToJsonLegacy(xml, preserveAttributes) ==
  IF xml.nodeType = 9
  THEN xmlToJsonLegacy(documentElement(xml), TRUE)
  ELSE LET obj == InitialObj(xml, TRUE) IN
    IF xml.childNodes # <<>> /\ AllText(xml)
    THEN IF JoinedText(xml) # <<>>
         THEN IF KeyCount(obj) = 0 THEN Str(JoinedText(xml))
              ELSE Set(obj, "#text", Str(JoinedText(xml)))
         ELSE obj
    ELSE IF xml.childNodes # <<>>
    THEN MapChildrenLegacy(xml, 1, obj)
    ELSE obj

----------------------------------------------------------------------------
(* The file-type detector: detectFileType                                  *)

\* xmlString.includes(indicator), on the spelling of the text: the atoms of
\* the indicator occur next to each other in it.
IncludesAtoms(stream, pat) ==
  \E i \in 1..(Len(stream) - Len(pat) + 1) :
    SubSeq(stream, i, i + Len(pat) - 1) = pat

\* A list of indicators that holds the document root marker only.
RootIndicatorOnly == << {<<"AlteryxDocument">>, <<"Alteryx", "Document">>} >>

\* The ways each indicator is spelled in atoms.  An indicator that ends in
\* '=' ends inside the atom that opens the attribute value.
alteryxIndicators ==
  << {<<"AlteryxDocument">>, <<"Alteryx", "Document">>},
     {<<"<", "Node", " ", "ToolID", "=\"">>},
     {<<"<", "Connection", " ", "Origin", "=\"">>},
     {<<"GuiSettings", " ", "Plugin", "=\"">>},
     {<<"yxmdVer", "=\"">>},
     {<<"EngineSettings", " ", "EngineDll", "=\"">>} >>

Includes(xmlString, indicator) ==
  \E pat \in indicator : IncludesAtoms(SpellAll(xmlString), pat)

detectFileType(xmlString) ==
  IF \E i \in DOMAIN alteryxIndicators : Includes(xmlString, alteryxIndicators[i])
  THEN "yxmd" ELSE "generic"

\* A detector that knows 'AlteryxDocument' only.
detectRootMarkerOnly(xmlString) ==
  IF Includes(xmlString, {<<"AlteryxDocument">>, <<"Alteryx", "Document">>})
  THEN "yxmd" ELSE "generic"

\* The detector of the earlier converter, which the documentation quotes:
\* includes('AlteryxDocument') || includes('Properties').
detectFileTypeLegacy(xmlString) ==
  IF \/ Includes(xmlString, {<<"AlteryxDocument">>, <<"Alteryx", "Document">>})
     \/ Includes(xmlString, {<<"Properties">>})
  THEN "yxmd" ELSE "generic"

----------------------------------------------------------------------------
(* The Alteryx extractor: parseAlteryxWorkflow                             *)

\* The XML serialization of a node (innerHTML serializes the children).
RECURSIVE Serialize(_)
Serialize(node) ==
  CASE node.nodeType = 3 -> node.nodeValue
    [] node.nodeType = 4 -> <<"<![CDATA[">> \o node.nodeValue \o <<"]]>">>
    [] OTHER ->
         IF node.childNodes = <<>>
         THEN <<"<", node.nodeName>> \o SpellAttrs(node.attributes) \o <<"/>">>
         ELSE <<"<", node.nodeName>> \o SpellAttrs(node.attributes) \o <<">">>
                \o Flatten([i \in DOMAIN node.childNodes |->
                              Serialize(node.childNodes[i])])
                \o <<"</", node.nodeName, ">">>

innerHTML(node) ==
  Flatten([i \in DOMAIN node.childNodes |-> Serialize(node.childNodes[i])])

\* element.children: the child nodes that are elements.
children(node) == SelectSeq(node.childNodes, LAMBDA c : c.nodeType = 1)

\* q?.textContent || undefined, for the result q of querySelector.
TextOrUndefined(q) ==
  IF q = <<>> \/ textContent(q[1]) = <<>> THEN Undefined
  ELSE Str(textContent(q[1]))

\* A lookup that falls back to the empty string, whatever the default.
AttrOrEmpty(q, name, dflt) ==
  IF q = <<>> \/ getAttribute(q[1], name) = <<>> THEN ""
  ELSE getAttribute(q[1], name)[1]

\* q?.getAttribute(name) || dflt, as one atom.
AttrOr(q, name, dflt) ==
  IF q = <<>> \/ getAttribute(q[1], name) \in {<<>>, <<"">>} THEN dflt
  ELSE getAttribute(q[1], name)[1]

\* parseInt on the attribute values of the model: the leading integer of
\* the string, NaN when it has none.
parseInt(v) ==
  CASE v = "0" -> Num(0)
    [] v = "54" -> Num(54)
    [] v = "162" -> Num(162)
    [] v = "12px" -> Num(12)
    [] v = "7.9" -> Num(7)
    [] OTHER -> NaN

\* config[child.tagName] = child.textContent || child.innerHTML, per child.
RECURSIVE FlattenChildren(_, _, _)
FlattenChildren(kids, i, acc) ==
  IF i > Len(kids) THEN acc
  ELSE FlattenChildren(kids, i + 1,
         Set(acc, kids[i].nodeName,
             IF textContent(kids[i]) # <<>> THEN Str(textContent(kids[i]))
             ELSE Str(innerHTML(kids[i]))))

\* settings[attr.name] = attr.value for each attribute.
AttributesObject(node) == AttrObject(node.attributes, 1, EmptyObj)

Tool(node) ==
  LET gui == querySelector(node, "GuiSettings")
      properties == querySelector(node, "Properties")
      engineSettings == querySelector(node, "EngineSettings")
      base == Obj(<<
        KV("id", Str(<<AttrOr(<<node>>, "ToolID", "")>>)),
        KV("name", Str(<<AttrOr(gui, "Plugin", "Unknown")>>)),
        KV("type", Str(<<AttrOr(gui, "Plugin", "Unknown")>>)),
        KV("plugin", Str(<<AttrOr(gui, "Plugin", "")>>)),
        KV("configuration",
           IF properties = <<>> THEN EmptyObj
           ELSE FlattenChildren(children(properties[1]), 1, EmptyObj)),
        KV("position", Obj(<<
           KV("x", parseInt(AttrOr(gui, "X", "0"))),
           KV("y", parseInt(AttrOr(gui, "Y", "0"))) >>)) >>)
  IN IF engineSettings = <<>> THEN base
     ELSE Set(base, "engineSettings", AttributesObject(engineSettings[1]))

\* A connection that stores the optional attributes whenever they are
\* present, empty or not.
ConnectionStoringEmpty(conn) ==
  LET base == Obj(<<
        KV("origin", Str(<<AttrOr(<<conn>>, "Origin", "")>>)),
        KV("destination", Str(<<AttrOr(<<conn>>, "Destination", "")>>)) >>)
      originOutput == getAttribute(conn, "OriginOutput")
      destinationInput == getAttribute(conn, "DestinationInput")
      withOut == IF originOutput = <<>> THEN base
                 ELSE Set(base, "originOutput", Str(originOutput))
  IN IF destinationInput = <<>> THEN withOut
     ELSE Set(withOut, "destinationInput", Str(destinationInput))

Connection(conn) ==
  LET base == Obj(<<
        KV("origin", Str(<<AttrOr(<<conn>>, "Origin", "")>>)),
        KV("destination", Str(<<AttrOr(<<conn>>, "Destination", "")>>)) >>)
      originOutput == getAttribute(conn, "OriginOutput")
      destinationInput == getAttribute(conn, "DestinationInput")
      withOut == IF originOutput \in {<<>>, <<"">>} THEN base
                 ELSE Set(base, "originOutput", Str(originOutput))
  IN IF destinationInput \in {<<>>, <<"">>} THEN withOut
     ELSE Set(withOut, "destinationInput", Str(destinationInput))

Metadata(xmlDoc) ==
  LET metaInfo == querySelector(xmlDoc, "MetaInfo") IN
    IF metaInfo = <<>> THEN EmptyObj
    ELSE Obj(<<
      KV("author", TextOrUndefined(querySelector(metaInfo[1], "Author"))),
      KV("description", TextOrUndefined(querySelector(metaInfo[1], "Description"))),
      KV("created", TextOrUndefined(querySelector(metaInfo[1], "Created"))),
      KV("modified", TextOrUndefined(querySelector(metaInfo[1], "Modified"))),
      KV("category", TextOrUndefined(querySelector(metaInfo[1], "CategoryName"))) >>)

\* Constants stored without the test of the name: a missing name is the
\* key 'null'.
RECURSIVE ConstantsUnguarded(_, _, _)
ConstantsUnguarded(cs, i, acc) ==
  IF i > Len(cs) THEN acc
  ELSE ConstantsUnguarded(cs, i + 1,
         Set(acc, IF getAttribute(cs[i], "Name") = <<>> THEN "null"
                  ELSE getAttribute(cs[i], "Name")[1],
             Str(textContent(cs[i]))))

\* if (name) workflow.constants[name] = constant.textContent, per constant.
RECURSIVE Constants(_, _, _)
Constants(cs, i, acc) ==
  IF i > Len(cs) THEN acc
  ELSE Constants(cs, i + 1,
         IF getAttribute(cs[i], "Name") \in {<<>>, <<"">>} THEN acc
         ELSE Set(acc, getAttribute(cs[i], "Name")[1], Str(textContent(cs[i]))))

parseAlteryxWorkflow(xmlString) ==
  LET xmlDoc == parseFromString(xmlString)
      nodes == querySelectorAll(xmlDoc, "Node")
      connections == querySelectorAll(xmlDoc, "Connection")
      workflowProps == querySelector(xmlDoc, "Properties")
      constants == querySelectorAll(xmlDoc, "Constant")
      workflow == Obj(<<
        KV("metadata", Metadata(xmlDoc)),
        KV("tools", Arr([i \in DOMAIN nodes |-> KV("", Tool(nodes[i]))])),
        KV("connections",
           Arr([i \in DOMAIN connections |-> KV("", Connection(connections[i]))])),
        KV("properties",
           IF workflowProps = <<>> THEN EmptyObj
           ELSE FlattenChildren(children(workflowProps[1]), 1, EmptyObj)) >>)
  IN IF Len(constants) > 0
     THEN Set(workflow, "constants", Constants(constants, 1, EmptyObj))
     ELSE workflow

----------------------------------------------------------------------------
(* JSON text: JSON.stringify, formatJsonOutput and JSON.parse              *)

\* JSON text is a sequence of lexemes [k, s]: a punctuation mark, a white
\* space character, a string literal (s holds the escaped atoms between
\* the quotes), a number literal or null.  A thrown message is a text of
\* one "message" lexeme.
Lx(k, s) == [k |-> k, s |-> s]
Punct(c) == Lx("punct", <<c>>)
Ws(c) == Lx("ws", <<c>>)
Message(s) == <<Lx("message", s)>>

\* The escape of an atom inside a JSON string literal.
EscapeAtom(c) ==
  CASE c = "\n" -> "\\n"
    [] c = "\"" -> "\\\""
    [] c = "=\"" -> "=\\\""
    [] OTHER -> c

UnescapeAtom(c) ==
  CASE c = "\\n" -> "\n"
    [] c = "\\\"" -> "\""
    [] c = "=\\\"" -> "=\""
    [] OTHER -> c

Quote(s) == Lx("string", [i \in DOMAIN s |-> EscapeAtom(s[i])])

Spaces(n) == [i \in 1..n |-> Ws(" ")]

\* A line break and the indentation of the given depth; nothing when gap = 0.
Break(gap, depth) == IF gap = 0 THEN <<>> ELSE <<Ws("\n")>> \o Spaces(gap * depth)

\* A property whose value is undefined or a function is left out of an object.
Serializable(mem) == mem.val.t \notin {"undefined", "function"}

RECURSIVE Stringify(_, _, _)
RECURSIVE StringifyList(_, _, _, _, _)

\* The members from index i on, each after a break, separated by commas.
StringifyList(v, i, gap, depth, first) ==
  IF i > Len(v.m) THEN <<>>
  ELSE IF v.t = "object" /\ ~Serializable(v.m[i])
  THEN StringifyList(v, i + 1, gap, depth, first)
  ELSE (IF first THEN <<>> ELSE <<Punct(",")>>)
       \o Break(gap, depth)
       \o (IF v.t = "object"
           THEN <<Quote(<<v.m[i].key>>), Punct(":")>>
                  \o Spaces(IF gap = 0 THEN 0 ELSE 1)
           ELSE <<>>)
       \o Stringify(v.m[i].val, gap, depth)
       \o StringifyList(v, i + 1, gap, depth, FALSE)

\* JSON.stringify(v, null, gap) at nesting depth `depth`.
Stringify(v, gap, depth) ==
  CASE v.t = "string" -> <<Quote(v.s)>>
    [] v.t = "number" -> <<Lx("number", <<ToString(v.n)>>)>>
    [] v.t \in {"NaN", "null", "undefined", "function"} -> <<Lx("null", <<"null">>)>>
    [] v.t = "array" ->
         IF v.m = <<>> THEN <<Punct("["), Punct("]")>>
         ELSE <<Punct("[")>> \o StringifyList(v, 1, gap, depth + 1, TRUE)
                \o Break(gap, depth) \o <<Punct("]")>>
    [] v.t = "object" ->
         IF \A i \in DOMAIN v.m : ~Serializable(v.m[i])
         THEN <<Punct("{"), Punct("}")>>
         ELSE <<Punct("{")>> \o StringifyList(v, 1, gap, depth + 1, TRUE)
                \o Break(gap, depth) \o <<Punct("}")>>

\* A formatter whose compact output is indented like the pretty one.
formatCompactAsPretty(jsonObj, format) ==
  CASE format = "minified" -> Stringify(jsonObj, 0, 0)
    [] OTHER -> Stringify(jsonObj, 2, 0)

\* The switch on format: 'minified', 'compact', and pretty for anything else.
formatJsonOutput(jsonObj, format) ==
  CASE format = "minified" -> Stringify(jsonObj, 0, 0)
    [] format = "compact" -> Stringify(jsonObj, 1, 0)
    [] OTHER -> Stringify(jsonObj, 2, 0)

\* The largest number JSON.parse reads back in the model.
MaxNumber == 200

RECURSIVE SkipWs(_, _)
SkipWs(a, i) == IF i <= Len(a) /\ a[i].k = "ws" THEN SkipWs(a, i + 1) ELSE i

RECURSIVE ValueAt(_, _)
RECURSIVE MembersAt(_, _, _, _)

\* JSON.parse from position i0: the value read and the position after it.
ValueAt(a, i0) ==
  LET i == SkipWs(a, i0) IN
    CASE a[i].k = "string" ->
           [v |-> Str([h \in DOMAIN a[i].s |-> UnescapeAtom(a[i].s[h])]), i |-> i + 1]
      [] a[i] = Punct("{") -> MembersAt(a, i + 1, "object", <<>>)
      [] a[i] = Punct("[") -> MembersAt(a, i + 1, "array", <<>>)
      [] a[i].k = "null" -> [v |-> Null, i |-> i + 1]
      [] a[i].k = "number" ->
           [v |-> Num(CHOOSE n \in 0..MaxNumber : ToString(n) = a[i].s[1]),
            i |-> i + 1]

MembersAt(a, i0, t, acc) ==
  LET i == SkipWs(a, i0) IN
    IF a[i] \in {Punct("}"), Punct("]")} THEN [v |-> JV(t, <<>>, 0, acc), i |-> i + 1]
    ELSE IF a[i] = Punct(",") THEN MembersAt(a, i + 1, t, acc)
    ELSE IF t = "array"
    THEN LET item == ValueAt(a, i) IN
           MembersAt(a, item.i, t, Append(acc, KV("", item.v)))
    ELSE LET val == ValueAt(a, SkipWs(a, i + 1) + 1) IN
           MembersAt(a, val.i, t, Append(acc, KV(UnescapeAtom(a[i].s[1]), val.v)))

JsonParse(a) == ValueAt(a, 1).v

----------------------------------------------------------------------------
(* The conversion facade: convertXmlToJson and its cache                   *)

CACHE_DURATION == 5 * 60 * 1000

\* The options argument: given is FALSE when the argument is omitted, and a
\* property that is not set is "absent".
Options(pa, fmt, uc) ==
  [given |-> TRUE, preserveAttributes |-> pa, outputFormat |-> fmt, useCache |-> uc]

NoOptions ==
  [given |-> FALSE, preserveAttributes |-> "absent", outputFormat |-> "absent",
   useCache |-> "absent"]

\* Caching that is off unless it is asked for.
UseCacheDefaultOff(options) == options.useCache = "true"

\* Caching that cannot be switched off.
UseCacheAlways(options) == TRUE

\* options?.useCache ?? true
UseCacheOf(options) == options.useCache # "false"

\* options?.preserveAttributes ?? true
PreserveAttributesOf(options) == options.preserveAttributes # "false"

\* JSON.stringify(options): "undefined" for an omitted argument, else the
\* properties that are set, in the order the callers write them.
StringifyOptions(options) ==
  IF ~options.given THEN <<"undefined">>
  ELSE LET pa == IF options.preserveAttributes = "absent" THEN <<>>
                 ELSE << <<"\"preserveAttributes\":", options.preserveAttributes>> >>
           fmt == IF options.outputFormat = "absent" THEN <<>>
                  ELSE << <<"\"outputFormat\":", "\"", options.outputFormat, "\"">> >>
           uc == IF options.useCache = "absent" THEN <<>>
                 ELSE << <<"\"useCache\":", options.useCache>> >>
           props == pa \o fmt \o uc
       IN <<"{">>
          \o Flatten([i \in DOMAIN props |->
                        (IF i = 1 THEN <<>> ELSE <<",">>) \o props[i]])
          \o <<"}">>

\* A key made of the input alone.
CacheKeyInputOnly(trimmedXml, options) == SpellAll(trimmedXml)

\* `${trimmedXml}_${JSON.stringify(options)}`
CacheKey(trimmedXml, options) ==
  SpellAll(trimmedXml) \o <<"_">> \o StringifyOptions(options)

Failure(kind, message, parsed) ==
  [ok |-> FALSE, kind |-> kind, text |-> message, parsed |-> parsed,
   extracted |-> FALSE]

Success(result, extracted) ==
  [ok |-> TRUE, kind |-> "result", text |-> result, parsed |-> TRUE,
   extracted |-> extracted]

\* Lines 97-119: resolve CDATA, parse, reject a parser error, detect the
\* file type, dispatch to the extractor or the mapper, and format.
Process(trimmedXml, options) ==
  LET processedXml == processCDATA(processNamespaces(trimmedXml))
      xmlDoc == parseFromString(processedXml)
      parserError == querySelector(xmlDoc, "parsererror")
  IN IF parserError # <<>>
     THEN Failure("ParseError", Message(<<"Invalid XML: ">> \o textContent(parserError[1])), TRUE)
     ELSE IF detectFileType(processedXml) = "yxmd"
     THEN Success(formatJsonOutput(parseAlteryxWorkflow(processedXml),
                                   options.outputFormat), TRUE)
     ELSE LET jsonObj == xmlToJson(documentElement(xmlDoc),
                                   PreserveAttributesOf(options))
          IN IF jsonObj.t = "throw"
             THEN Failure("TypeError", Message(<<"obj[nodeName].push is not a function">>), TRUE)
             ELSE Success(formatJsonOutput(jsonObj, options.outputFormat), FALSE)

\* A validation without the check for empty input.
ValidateTagOnly(trimmedXml) ==
  IF ~StartsWithTag(trimmedXml)
  THEN Failure("MalformedInput", Message(<<"Invalid XML: Content must start with a tag">>), FALSE)
  ELSE [ok |-> TRUE, kind |-> "valid", text |-> <<>>, parsed |-> FALSE,
        extracted |-> FALSE]

\* Lines 77-85: the checks on the trimmed input that come before the cache.
Validate(trimmedXml) ==
  IF trimmedXml = <<>>
  THEN Failure("EmptyInput", Message(<<"XML content is empty">>), FALSE)
  ELSE IF ~StartsWithTag(trimmedXml)
  THEN Failure("MalformedInput", Message(<<"Invalid XML: Content must start with a tag">>), FALSE)
  ELSE [ok |-> TRUE, kind |-> "valid", text |-> <<>>, parsed |-> FALSE,
        extracted |-> FALSE]

\* An entry that is still served at the age of CACHE_DURATION.
FreshInclusive(cache, key, t) ==
  key \in DOMAIN cache /\ t - cache[key].timestamp <= CACHE_DURATION

\* cached && Date.now() - cached.timestamp < CACHE_DURATION
Fresh(cache, key, t) ==
  key \in DOMAIN cache /\ t - cache[key].timestamp < CACHE_DURATION

\* A store that stamps every entry of the cache anew.
CacheSetTouchingAll(cache, key, result, t) ==
  [k \in DOMAIN cache \cup {key} |->
     [result |-> IF k = key THEN result ELSE cache[k].result, timestamp |-> t]]

\* conversionCache.set(key, {result, timestamp})
CacheSet(cache, key, result, t) ==
  [k \in DOMAIN cache \cup {key} |->
     IF k = key THEN [result |-> result, timestamp |-> t] ELSE cache[k]]

\* A cleaning that deletes nothing.
cleanCacheNever(cache, t) == cache

\* cleanCache: deletes the entries older than CACHE_DURATION.
cleanCache(cache, t) ==
  [k \in {h \in DOMAIN cache : ~(t - cache[h].timestamp > CACHE_DURATION)} |->
     cache[k]]

\* A store that is reached by a failed conversion too.
CacheAfterAlways(cache, cacheKey, useCache, processed, t) ==
  IF useCache
  THEN cleanCache(CacheSet(cache, cacheKey, processed.text, t), t)
  ELSE cache

\* Lines 103-128: a parser error or an error of the mapper is thrown before
\* the store is reached; a result is stored, and the cache cleaned, when
\* caching is enabled.
CacheAfter(cache, cacheKey, useCache, processed, t) ==
  IF processed.ok /\ useCache
  THEN cleanCache(CacheSet(cache, cacheKey, processed.text, t), t)
  ELSE cache

----------------------------------------------------------------------------
(* The inputs of the facade model                                          *)

Doc_Empty == <<>>
Doc_Blank == <<T(" "), T("\n")>>
Doc_NoTag == <<T("x"), E("a")>>
Doc_Leaf == <<OA("Name", <<At("id", "7")>>), T("x"), C("Name")>>
Doc_LeafPadded ==
  <<T(" "), OA("Name", <<At("id", "7")>>), T("x"), C("Name"), T("\n")>>
Doc_Attr == <<OA("Item", <<At("id", "7")>>), T("X"), C("Item")>>
Doc_Unclosed == <<O("a"), O("b"), C("a")>>
Doc_CDataRoot == <<CDO, E("a"), CDC>>
Doc_Push ==
  <<O("R"), O("T"), E("push"), C("T"), E("T"), C("R")>>
Doc_Workflow ==
  <<OA("AlteryxDocument", <<At("yxmdVer", "2020.1")>>),
    OA("Node", <<At("ToolID", "1")>>),
    EA("GuiSettings", <<At("Plugin", "DbFileInput"), At("X", "54")>>),
    C("Node"),
    C("AlteryxDocument")>>
Doc_WorkflowBroken ==
  <<O("AlteryxDocument"), OA("Node", <<At("ToolID", "1")>>), C("AlteryxDocument")>>

Docs ==
  <<Doc_Empty, Doc_Blank, Doc_NoTag, Doc_Leaf, Doc_LeafPadded, Doc_Attr,
    Doc_Unclosed, Doc_CDataRoot, Doc_Push, Doc_Workflow, Doc_WorkflowBroken>>

\* The option arguments of the model: omitted, the two properties the
\* converter views pass, the explicit defaults, and caching switched off.
ViewOptions == Options("false", "minified", "absent")
CacheOff == Options("absent", "absent", "false")

\* Every options argument: each property absent or set to one of its values
\* ("table" stands for a format the switch does not know).
AllOptions ==
  {NoOptions} \cup
  {Options(pa, fmt, uc) :
     pa \in {"absent", "true", "false"},
     fmt \in {"absent", "pretty", "minified", "compact", "table"},
     uc \in {"absent", "true", "false"}}

Ix(doc) == CHOOSE i \in DOMAIN Docs : Docs[i] = doc

\* The calls of the facade model: each input with the option arguments that
\* make its cases differ.
Requests ==
  ({Ix(Doc_Empty), Ix(Doc_CDataRoot)} \X {CacheOff})
  \cup ({Ix(Doc_Leaf)} \X {NoOptions, ViewOptions, CacheOff})
  \cup ({Ix(Doc_Workflow)} \X {ViewOptions})
  \cup ({Ix(Doc_Blank), Ix(Doc_NoTag), Ix(Doc_LeafPadded), Ix(Doc_Unclosed),
         Ix(Doc_Push), Ix(Doc_WorkflowBroken)}
          \X {NoOptions})

\* Process on every input of the model, computed once.
Processed ==
  [d \in DOMAIN Docs, o \in AllOptions |-> Process(Trim(Docs[d]), o)]

\* Likewise the checks on every input and the cache key of every call.
Validated == [d \in DOMAIN Docs |-> Validate(Trim(Docs[d]))]

CacheKeys == [r \in Requests |-> CacheKey(Trim(Docs[r[1]]), r[2])]

----------------------------------------------------------------------------
(* State and actions                                                       *)

VARIABLES
  conversionCache,  \* the Map: cache key -> [result, timestamp]
  now,              \* Date.now()
  ticks,            \* the number of clock advances so far
  calls,            \* the number of convertXmlToJson calls so far
  last,             \* the latest operation and what it returned or threw
  stored,           \* per cache key, the latest store and whether
                    \* clearConversionCache ran after it
  stage,            \* where the mapper run stands: "idle", "input", "mapped",
                    \* "formatted"
  mapperIn,         \* the parsed text and the flag handed to the mapper
  jsonObj,          \* what the mapper or the extractor returned
  formatted,        \* the format asked of formatJsonOutput and its text
  fileType,         \* what detectFileType returned last, "null" before
  conversions,      \* the batch of the bulk converter: per file its status,
                    \* where its callback is suspended and what its
                    \* conversion returned or threw
  isProcessing,     \* the bulk converter is at work
  overallProgress,  \* the progress the bulk converter shows, in percent, as
                    \* a fraction
  snapshot,         \* the conversions as the running convertAll sees them:
                    \* those of the render it was invoked in
  validationErrors, \* the errors the editor shows for its input
  rows,             \* the rows of the table conversions
  answer            \* the latest request to the table and what came of it

facade == <<conversionCache, now, ticks, calls, last, stored>>

mapper == <<stage, mapperIn, jsonObj, formatted, fileType>>

vars == <<conversionCache, now, ticks, calls, last, stored,
          stage, mapperIn, jsonObj, formatted, fileType, conversions,
          isProcessing, overallProgress, snapshot, validationErrors, rows,
          answer>>

\* The state of the views and of the table, apart from the batch.
views ==
  <<isProcessing, overallProgress, snapshot, validationErrors, rows, answer>>

MaxCalls == 3
MaxTicks == 2

\* The clock advances by a millisecond or by a millisecond less than the
\* time-to-live, so that ages below, at and above it all occur.
Deltas == {1, CACHE_DURATION - 1}

EmptyMap == [k \in {} |-> 0]

NoOutcome ==
  [ok |-> FALSE, kind |-> "none", text |-> <<>>, parsed |-> FALSE,
   extracted |-> FALSE]

FacadeInit ==
  /\ conversionCache = EmptyMap
  /\ now = 0
  /\ ticks = 0
  /\ calls = 0
  /\ last = [op |-> "none", doc |-> 0, options |-> NoOptions, out |-> NoOutcome,
             hit |-> FALSE]
  /\ stored = EmptyMap

\* No file is selected in the bulk converter.
NoBatch == <<>>

NoAnswer == [op |-> "none"]

\* (completed / total) * 100
Percent(completed, total) == [times100 |-> completed * 100, over |-> total]

\* The views before anything is entered, and the empty table.
ViewInit ==
  /\ isProcessing = FALSE
  /\ overallProgress = Percent(0, 1)
  /\ snapshot = NoBatch
  /\ validationErrors = <<>>
  /\ rows = {}
  /\ answer = NoAnswer

NoFormat == [format |-> "absent", text |-> <<>>]

Init ==
  /\ FacadeInit
  /\ ViewInit
  /\ stage = "idle"
  /\ mapperIn = [text |-> <<>>, preserveAttributes |-> TRUE]
  /\ jsonObj = Undefined
  /\ formatted = NoFormat
  /\ fileType = "null"
  /\ conversions = NoBatch

\* One call of convertXmlToJson(Docs[d], options) with the clock at `now`.
\* The function has no await: the whole call is one step.
convertXmlToJson(d, options) ==
  LET valid == Validated[d]
      useCache == UseCacheOf(options)
      cacheKey == CacheKeys[<<d, options>>]
      processed == Processed[d, options]
      return(out, hit) ==
        last' = [op |-> "convert", doc |-> d, options |-> options, out |-> out,
                 hit |-> hit]
  IN /\ calls < MaxCalls
     /\ calls' = calls + 1
     /\ UNCHANGED <<now, ticks>>
     /\ UNCHANGED mapper
     /\ UNCHANGED conversions
     /\ UNCHANGED views
     /\ IF ~valid.ok
        THEN return(valid, FALSE) /\ UNCHANGED <<conversionCache, stored>>
        ELSE IF useCache /\ Fresh(conversionCache, cacheKey, now)
        THEN /\ return([ok |-> TRUE, kind |-> "result",
                        text |-> conversionCache[cacheKey].result,
                        parsed |-> FALSE, extracted |-> FALSE], TRUE)
             /\ UNCHANGED <<conversionCache, stored>>
        ELSE /\ return(processed, FALSE)
             /\ conversionCache' =
                  CacheAfter(conversionCache, cacheKey, useCache, processed, now)
             /\ stored' =
                  IF processed.ok /\ useCache
                  THEN [k \in DOMAIN stored \cup {cacheKey} |->
                          IF k = cacheKey
                          THEN [result |-> processed.text, timestamp |-> now,
                                cleared |-> FALSE]
                          ELSE stored[k]]
                  ELSE stored

\* clearConversionCache()
clearConversionCache ==
  /\ conversionCache # EmptyMap
  /\ conversionCache' = EmptyMap
  /\ stored' = [k \in DOMAIN stored |-> [stored[k] EXCEPT !.cleared = TRUE]]
  /\ last' = [op |-> "clear", doc |-> 0, options |-> NoOptions, out |-> NoOutcome,
              hit |-> FALSE]
  /\ UNCHANGED <<now, ticks, calls>>
  /\ UNCHANGED mapper
  /\ UNCHANGED conversions
  /\ UNCHANGED views

\* Time passes between two operations.
Tick ==
  /\ ticks < MaxTicks
  /\ \E delta \in Deltas : now' = now + delta
  /\ ticks' = ticks + 1
  /\ UNCHANGED <<conversionCache, calls, last, stored>>
  /\ UNCHANGED mapper
  /\ UNCHANGED conversions
  /\ UNCHANGED views

Convert == \E r \in Requests : convertXmlToJson(r[1], r[2])

Next == Convert \/ clearConversionCache \/ Tick

Spec == Init /\ [][Next]_vars

----------------------------------------------------------------------------
(* The mapper, the extractor and the formatter on their own                *)

MaxKids == 3

ItemId == <<At("id", "7")>>

\* The child nodes of the generated documents: elements that map to an
\* empty mapping, to a scalar, to a mapping with attributes, to a mapping
\* keyed by child tag names (one of them "push"), elements named like
\* members of Object.prototype and of Array.prototype, and text.
ChildNodes ==
  {Element("Item", <<>>, <<>>),
   Element("Item", <<>>, <<TextNode(<<"a">>)>>),
   Element("Item", ItemId, <<TextNode(<<"b">>)>>),
   Element("Item", <<>>, <<Element("push", <<>>, <<>>)>>),
   Element("Name", <<>>, <<TextNode(<<"d">>)>>),
   Element("toString", <<>>, <<>>),
   Element("push", <<>>, <<>>),
   TextNode(<<"x">>),
   TextNode(<<" ">>)}

\* The character data of the generated leaf elements.
LeafRuns == {<<" ", "\n">>, <<" ", "x", " ", "y", "\n">>}

\* A parsed document never holds two text nodes side by side.
NoAdjacentText(kids) ==
  \A i \in 1..(Len(kids) - 1) : ~(kids[i].nodeType = 3 /\ kids[i + 1].nodeType = 3)

Trees ==
  {Element("R", a, kids) :
     a \in {<<>>, ItemId},
     kids \in {k \in SeqsUpTo(ChildNodes, MaxKids) : NoAdjacentText(k)}
              \cup {<<TextNode(r)>> : r \in LeafRuns}}

\* The markup of a tree, as text.
RECURSIVE Markup(_)
Markup(node) ==
  IF node.nodeType = 3 THEN [i \in DOMAIN node.nodeValue |-> T(node.nodeValue[i])]
  ELSE IF node.childNodes = <<>> THEN <<EA(node.nodeName, node.attributes)>>
  ELSE <<OA(node.nodeName, node.attributes)>>
         \o Flatten([i \in DOMAIN node.childNodes |-> Markup(node.childNodes[i])])
         \o <<C(node.nodeName)>>

\* The processed texts handed on to the mapper or the extractor: the
\* generated documents and the inputs of the facade model that parse.
MapperTexts ==
  {Markup(e) : e \in Trees}
  \cup {x \in {processCDATA(processNamespaces(Trim(Docs[d]))) : d \in DOMAIN Docs} :
          StartsWithTag(x) /\ querySelector(parseFromString(x), "parsererror") = <<>>}

Formats == {"absent", "pretty", "compact", "minified", "table"}

MapperInit ==
  /\ FacadeInit
  /\ ViewInit
  /\ stage = "input"
  /\ mapperIn \in [text : MapperTexts, preserveAttributes : BOOLEAN]
  /\ jsonObj = Undefined
  /\ formatted = NoFormat
  /\ fileType = "null"
  /\ conversions = NoBatch

\* Line 117: xmlToJson(xmlDoc.documentElement, preserveAttributes)
Map ==
  /\ stage = "input"
  /\ detectFileType(mapperIn.text) = "generic"
  /\ jsonObj' = xmlToJson(documentElement(parseFromString(mapperIn.text)),
                          mapperIn.preserveAttributes)
  /\ stage' = "mapped"
  /\ UNCHANGED <<mapperIn, formatted, fileType>>
  /\ UNCHANGED facade
  /\ UNCHANGED conversions
  /\ UNCHANGED views

\* Line 113: parseAlteryxWorkflow(processedXml)
Extract ==
  /\ stage = "input"
  /\ detectFileType(mapperIn.text) = "yxmd"
  /\ jsonObj' = parseAlteryxWorkflow(mapperIn.text)
  /\ stage' = "mapped"
  /\ UNCHANGED <<mapperIn, formatted, fileType>>
  /\ UNCHANGED facade
  /\ UNCHANGED conversions
  /\ UNCHANGED views

\* Lines 114 and 118: formatJsonOutput(result, format); a TypeError of the
\* mapper has left convertXmlToJson before.
Format ==
  /\ stage = "mapped"
  /\ jsonObj.t # "throw"
  /\ \E format \in Formats :
       formatted' = [format |-> format, text |-> formatJsonOutput(jsonObj, format)]
  /\ stage' = "formatted"
  /\ UNCHANGED <<mapperIn, jsonObj, fileType>>
  /\ UNCHANGED facade
  /\ UNCHANGED conversions
  /\ UNCHANGED views

MapperNext == Map \/ Extract \/ Format

MapperSpec == MapperInit /\ [][MapperNext]_vars

\* The earlier converter: xmlToJson(xmlDoc.documentElement,
\* options?.preserveAttributes ?? true) with the earlier mapper.
MapLegacy ==
  /\ stage = "input"
  /\ jsonObj' = xmlToJsonLegacy(documentElement(parseFromString(mapperIn.text)),
                                mapperIn.preserveAttributes)
  /\ stage' = "mapped"
  /\ UNCHANGED <<mapperIn, formatted, fileType>>
  /\ UNCHANGED facade
  /\ UNCHANGED conversions
  /\ UNCHANGED views

\* JSON.stringify(jsonObj, null, 2) of the earlier converter.
FormatLegacy ==
  /\ stage = "mapped"
  /\ jsonObj.t # "throw"
  /\ formatted' = [format |-> "pretty", text |-> Stringify(jsonObj, 2, 0)]
  /\ stage' = "formatted"
  /\ UNCHANGED <<mapperIn, jsonObj, fileType>>
  /\ UNCHANGED facade
  /\ UNCHANGED conversions
  /\ UNCHANGED views

LegacyNext == MapLegacy \/ FormatLegacy

LegacySpec == MapperInit /\ [][LegacyNext]_vars

----------------------------------------------------------------------------
(* The extractor on documents of the workflow dialect                      *)

MaxParts == 2

Gui(a) == Element("GuiSettings", a, <<>>)

\* The parts of the generated workflow documents.  Tools: with every
\* attribute; without any; with an empty Plugin and coordinates that are
\* not numbers; with Properties whose children hold nested markup without
\* text and plain text; with Properties whose child holds nested markup with
\* text; with a tool nested in it.  Connections: with every attribute;
\* without any; with an empty OriginOutput.  Properties of the workflow.
\* Constants: named, unnamed, named and empty.
WorkflowParts ==
  {Element("Node", <<At("ToolID", "1")>>,
           <<Gui(<<At("Plugin", "DbFileInput"), At("X", "54"), At("Y", "162")>>)>>),
   Element("Node", <<>>, <<>>),
   Element("Node", <<At("ToolID", "2")>>,
           <<Gui(<<At("Plugin", ""), At("X", "abc")>>)>>),
   Element("Node", <<At("ToolID", "3")>>,
           <<Gui(<<At("X", "12px"), At("Y", "7.9")>>),
             Element("Properties", <<>>,
                     <<Element("Configuration", <<>>,
                               <<Element("Field", <<At("name", "a")>>, <<>>)>>),
                       Element("Annotation", <<>>, <<TextNode(<<"note">>)>>)>>)>>),
   Element("Node", <<At("ToolID", "4")>>,
           <<Element("Properties", <<>>,
                     <<Element("Configuration", <<>>,
                               <<Element("File", <<>>, <<TextNode(<<"in.csv">>)>>)>>)>>)>>),
   Element("Node", <<At("ToolID", "5")>>,
           <<Element("ChildNodes", <<>>,
                     <<Element("Node", <<At("ToolID", "6")>>,
                               <<Gui(<<At("Plugin", "Inner")>>)>>)>>)>>),
   Element("Connection",
           <<At("Origin", "1"), At("Destination", "9"),
             At("OriginOutput", "Output"), At("DestinationInput", "Input")>>, <<>>),
   Element("Connection", <<>>, <<>>),
   Element("Connection", <<At("Origin", "1"), At("OriginOutput", "")>>, <<>>),
   Element("Properties", <<>>,
           <<Element("Memory", <<>>, <<TextNode(<<"default">>)>>)>>),
   Element("Constant", <<At("Name", "k")>>, <<TextNode(<<"v">>)>>),
   Element("Constant", <<>>, <<TextNode(<<"v">>)>>),
   Element("Constant", <<At("Name", "j")>>, <<>>)}

WorkflowTexts ==
  {Markup(Element("AlteryxDocument", <<At("yxmdVer", "2020.1")>>, parts)) :
     parts \in SeqsUpTo(WorkflowParts, MaxParts)}

WorkflowInit ==
  /\ FacadeInit
  /\ ViewInit
  /\ stage = "input"
  /\ mapperIn \in [text : WorkflowTexts, preserveAttributes : {TRUE}]
  /\ jsonObj = Undefined
  /\ formatted = NoFormat
  /\ fileType = "null"
  /\ conversions = NoBatch

WorkflowNext == Extract \/ Format

WorkflowSpec == WorkflowInit /\ [][WorkflowNext]_vars

----------------------------------------------------------------------------
(* The detector on its own                                                 *)

MaxTokens == 2

\* The tokens of the texts handed to the detector: tags and text with and
\* without a marker, markers in the first and in a later attribute, and
\* the marker of the earlier detector.
DetectTokens ==
  {E("AlteryxDocument"), O("a"), C("a"), T("x"), T("Alteryx"), T("Document"),
   EA("a", <<At("id", "AlteryxDocument")>>),
   EA("Node", <<At("ToolID", "1")>>),
   EA("Node", <<At("X", "54"), At("ToolID", "1")>>),
   EA("Connection", <<At("Origin", "1")>>),
   EA("GuiSettings", <<At("Plugin", "DbFileInput")>>),
   EA("a", <<At("id", "7"), At("yxmdVer", "2020.1")>>),
   EA("EngineSettings", <<At("EngineDll", "x")>>),
   E("EngineSettings"),
   E("Properties")}

DetectTexts == SeqsUpTo(DetectTokens, MaxTokens)

DetectInit ==
  /\ FacadeInit
  /\ ViewInit
  /\ stage = "input"
  /\ mapperIn \in [text : DetectTexts, preserveAttributes : {TRUE}]
  /\ jsonObj = Undefined
  /\ formatted = NoFormat
  /\ fileType = "null"
  /\ conversions = NoBatch

\* setFileType(detectFileType(xmlInput))
Detect ==
  /\ stage = "input"
  /\ fileType' = detectFileType(mapperIn.text)
  /\ stage' = "detected"
  /\ UNCHANGED <<mapperIn, jsonObj, formatted>>
  /\ UNCHANGED facade
  /\ UNCHANGED conversions
  /\ UNCHANGED views

\* The same with the detector of the earlier converter.
DetectLegacy ==
  /\ stage = "input"
  /\ fileType' = detectFileTypeLegacy(mapperIn.text)
  /\ stage' = "detectedLegacy"
  /\ UNCHANGED <<mapperIn, jsonObj, formatted>>
  /\ UNCHANGED facade
  /\ UNCHANGED conversions
  /\ UNCHANGED views

DetectNext == Detect \/ DetectLegacy

DetectSpec == DetectInit /\ [][DetectNext]_vars

----------------------------------------------------------------------------
(* The editor: validateXmlSyntax and the conversion it guards              *)

MaxSyntaxTokens == 4

\* The tag names of the model that are one character long.
OneCharacterNames == {"R"}

\* The positions of the line breaks of the text, with both of its ends.
Breaks(s) ==
  {0, Len(s) + 1} \cup {i \in DOMAIN s : s[i] = T("\n")}

\* xmlString.split('\n'): the stretches between neighbouring line breaks.
Lines(s) ==
  LET at == Breaks(s)
      nth(k) == CHOOSE b \in at : Cardinality({c \in at : c < b}) = k - 1
  IN [k \in 1..(Cardinality(at) - 1) |-> SubSeq(s, nth(k) + 1, nth(k + 1) - 1)]

\* The matches of /<[^\/][^>]*[^\/]>/g in a line: the opening tags with two
\* characters or more between the brackets.
OpenTags(line) ==
  Cardinality({i \in DOMAIN line :
                 /\ line[i].k = "open"
                 /\ line[i].a # <<>> \/ line[i].n \notin OneCharacterNames})

\* The matches of /<\/[^>]+>/g in a line.
CloseTags(line) == Cardinality({i \in DOMAIN line : line[i].k = "close"})

\* The matches of /<[^>]*\/>/g in a line.
SelfClosing(line) == Cardinality({i \in DOMAIN line : line[i].k = "empty"})

\* Lines 29-37: the trimmed line is not empty and holds more opening tags
\* than closing and self-closing ones together.
Unclosed(line) ==
  LET trimmed == Trim(line) IN
    /\ trimmed # <<>>
    /\ OpenTags(trimmed) > CloseTags(trimmed) + SelfClosing(trimmed)
    /\ \E i \in DOMAIN trimmed : trimmed[i].k # "text"

\* validateXmlSyntax: the error of the parser, if any, and then one error
\* for each line with a possibly unclosed tag.
validateXmlSyntax(xmlString) ==
  LET parserError == querySelector(parseFromString(xmlString), "parsererror")
      lines == Lines(xmlString)
      flagged == {k \in DOMAIN lines : Unclosed(lines[k])}
      nth(j) == CHOOSE k \in flagged : Cardinality({h \in flagged : h < k}) = j - 1
  IN (IF parserError # <<>>
      THEN <<[line |-> 1, message |-> TrimAtoms(textContent(parserError[1]))]>>
      ELSE <<>>)
     \o [j \in 1..Cardinality(flagged) |->
           [line |-> nth(j), message |-> <<"Possible unclosed tag detected">>]]

\* convertXmlToJson(sanitizedXml, { useCache: true })
BulkOptions == Options("absent", "absent", "true")

\* The options the editor passes: the two settings, and no useCache.
EditorOptions == Options("true", "pretty", "absent")

\* The tokens of the texts typed into the editor.
SyntaxTokens ==
  {O("Item"), C("Item"), E("Item"), O("R"), C("R"), T("\n"), T("x")}

SyntaxTexts == SeqsUpTo(SyntaxTokens, MaxSyntaxTokens)

SyntaxInit ==
  /\ FacadeInit
  /\ ViewInit
  /\ stage = "input"
  /\ mapperIn \in [text : SyntaxTexts, preserveAttributes : {TRUE}]
  /\ jsonObj = Undefined
  /\ formatted = NoFormat
  /\ fileType = "null"
  /\ conversions = NoBatch

\* The effect on xmlInput: the errors of the input, none for a blank one.
ValidateSyntax ==
  /\ stage = "input"
  /\ validationErrors' =
       IF Trim(mapperIn.text) # <<>> THEN validateXmlSyntax(mapperIn.text)
       ELSE <<>>
  /\ stage' = "validated"
  /\ UNCHANGED <<mapperIn, jsonObj, formatted, fileType>>
  /\ UNCHANGED facade
  /\ UNCHANGED <<conversions, isProcessing, overallProgress, snapshot, rows,
                 answer>>

\* handleConvert of the editor: a blank input and an input with errors are
\* refused; every other input is detected and converted.
HandleConvert ==
  LET trimmedXml == Trim(mapperIn.text)
      valid == Validate(trimmedXml)
      cacheKey == CacheKey(trimmedXml, EditorOptions)
      processed == Process(trimmedXml, EditorOptions)
      done(op, out) ==
        last' = [op |-> op, doc |-> 0, options |-> EditorOptions, out |-> out,
                 hit |-> FALSE]
  IN /\ stage = "validated"
     /\ stage' = "handled"
     /\ UNCHANGED <<mapperIn, jsonObj, formatted>>
     /\ UNCHANGED <<now, ticks, calls, stored>>
     /\ UNCHANGED <<conversions, validationErrors, isProcessing,
                    overallProgress, snapshot, rows, answer>>
     /\ IF trimmedXml = <<>>
        THEN done("blank", NoOutcome) /\ UNCHANGED <<conversionCache, fileType>>
        ELSE IF validationErrors # <<>>
        THEN done("refused", NoOutcome) /\ UNCHANGED <<conversionCache, fileType>>
        ELSE /\ fileType' = detectFileType(mapperIn.text)
             /\ IF ~valid.ok
                THEN done("convert", valid) /\ UNCHANGED conversionCache
                ELSE /\ done("convert", processed)
                     /\ conversionCache' =
                          CacheAfter(conversionCache, cacheKey,
                                     UseCacheOf(EditorOptions), processed, now)

SyntaxNext == ValidateSyntax \/ HandleConvert

SyntaxSpec == SyntaxInit /\ [][SyntaxNext]_vars

----------------------------------------------------------------------------
(* The file type the views report next to the conversion                   *)

MaxBody == 4

\* What stands between the tags of the root in the texts of this part: text
\* that spells a marker in two halves, the brackets of a CDATA section, a
\* tool node, and other text.
ReportTokens ==
  {T("Alteryx"), T("Document"), T("x"), CDO, CDC,
   EA("Node", <<At("ToolID", "1")>>)}

ReportTexts ==
  {<<O("R")>> \o body \o <<C("R")>> : body \in SeqsUpTo(ReportTokens, MaxBody)}
  \cup {<<E("AlteryxDocument")>>}

ReportInit ==
  /\ FacadeInit
  /\ ViewInit
  /\ stage = "input"
  /\ mapperIn \in [text : ReportTexts, preserveAttributes : {TRUE}]
  /\ jsonObj = Undefined
  /\ formatted = NoFormat
  /\ fileType = "null"
  /\ conversions = NoBatch

\* A conversion of the input under the options, by a view that is then at
\* `view` and reports `reported` as the type of the file.
Reporting(view, reported, options) ==
  LET trimmedXml == Trim(mapperIn.text)
      valid == Validate(trimmedXml)
      processed == Process(trimmedXml, options)
      out == IF valid.ok THEN processed ELSE valid
  IN /\ stage = "input"
     /\ stage' = view
     /\ fileType' = reported
     /\ last' = [op |-> "convert", doc |-> 0, options |-> options, out |-> out,
                 hit |-> FALSE]
     /\ conversionCache' =
          IF valid.ok
          THEN CacheAfter(conversionCache, CacheKey(trimmedXml, options),
                          UseCacheOf(options), processed, now)
          ELSE conversionCache
     /\ UNCHANGED <<mapperIn, jsonObj, formatted>>
     /\ UNCHANGED <<now, ticks, calls, stored>>
     /\ UNCHANGED conversions
     /\ UNCHANGED views

\* handleConvert of App and of the editor: setFileType(detectFileType(
\* xmlInput)) on the input as typed, and then the conversion.
AppConvert ==
  /\ Trim(mapperIn.text) # <<>>
  /\ Reporting("app", detectFileType(mapperIn.text), EditorOptions)

\* The callback of the bulk converter on a text its structure check lets
\* through: the conversion, and after it
\* sanitizedXml.includes('AlteryxDocument') ? 'yxmd' : 'generic'.
BulkReport ==
  Reporting("bulk",
            IF Includes(mapperIn.text, alteryxIndicators[1]) THEN "yxmd"
            ELSE "generic",
            BulkOptions)

ReportNext == AppConvert \/ BulkReport

ReportSpec == ReportInit /\ [][ReportNext]_vars

----------------------------------------------------------------------------
(* The bulk converter: one batch of conversions started together          *)

\* processInBatches(pendingConversions, 3, ...): the files of one batch.
BatchSize == 3

\* The batches of the model, as the sanitized texts of their files: two
\* texts that differ only in the white space around them with one that does
\* not parse; the same text twice around a workflow; a text that does not
\* start with a tag before two of the same key; and a text that does not
\* parse twice before one with an attribute.
Batches ==
  {<<Ix(Doc_Leaf), Ix(Doc_LeafPadded), Ix(Doc_Unclosed)>>,
   <<Ix(Doc_Leaf), Ix(Doc_Workflow), Ix(Doc_Leaf)>>,
   <<Ix(Doc_NoTag), Ix(Doc_LeafPadded), Ix(Doc_Leaf)>>,
   <<Ix(Doc_Unclosed), Ix(Doc_Unclosed), Ix(Doc_Attr)>>}

BulkFiles == UNION {Range(batch) : batch \in Batches}

\* The cache key of each file, what the checks before the cache say of it
\* and what lines 97-119 make of it, computed once.
BulkKeys ==
  [d \in BulkFiles |-> CacheKey(Trim(Docs[d]), BulkOptions)] @@ EmptyMap

BulkValidated == [d \in BulkFiles |-> Validate(Trim(Docs[d]))] @@ EmptyMap

BulkProcessed ==
  [d \in BulkFiles |-> Process(Trim(Docs[d]), BulkOptions)] @@ EmptyMap

\* An await between the cache lookup and the parse.
SuspensionAfterLookup == {"lookup"}

\* The places inside convertXmlToJson at which a call is suspended: the
\* function is declared async and its body holds no await.
SuspensionPoints == {}

\* What a cache hit returns.
Cached(cache, key) ==
  [ok |-> TRUE, kind |-> "result", text |-> cache[key].result,
   parsed |-> FALSE, extracted |-> FALSE]

\* One call convertXmlToJson(Docs[d], BulkOptions) run from its start, or
\* from the place after the lookup where it was suspended, to its next
\* suspension or its return: the place reached, what was returned or
\* thrown, and the cache it leaves.
Call(d, cache, t, resumed) ==
  LET valid == BulkValidated[d]
      useCache == UseCacheOf(BulkOptions)
      cacheKey == BulkKeys[d]
      processed == BulkProcessed[d]
      settled(out, hit, c) ==
        [at |-> "measure", out |-> out, hit |-> hit, cache |-> c]
  IN IF resumed
     THEN settled(processed, FALSE,
                  CacheAfter(cache, cacheKey, useCache, processed, t))
     ELSE IF ~valid.ok THEN settled(valid, FALSE, cache)
     ELSE IF useCache /\ Fresh(cache, cacheKey, t)
     THEN settled(Cached(cache, cacheKey), TRUE, cache)
     ELSE IF "lookup" \in SuspensionPoints
     THEN [at |-> "lookup", out |-> NoOutcome, hit |-> FALSE, cache |-> cache]
     ELSE settled(processed, FALSE,
                  CacheAfter(cache, cacheKey, useCache, processed, t))

\* The files of the batch, all pending.
BulkInit ==
  /\ FacadeInit
  /\ ViewInit
  /\ stage = "idle"
  /\ mapperIn = [text |-> <<>>, preserveAttributes |-> TRUE]
  /\ jsonObj = Undefined
  /\ formatted = NoFormat
  /\ fileType = "null"
  /\ \E batch \in Batches :
       conversions =
         [i \in 1..BatchSize |->
            [file |-> batch[i], status |-> "pending", at |-> "idle",
             out |-> NoOutcome, hit |-> FALSE]]

\* The files that are done, with a result or with an error.
Completed(list) ==
  Cardinality({i \in DOMAIN list : list[i].status \in {"success", "error"}})

\* convertAll is invoked: it sees the conversions of this render, of which
\* some are pending, and sets isProcessing and the progress.
ConvertAll ==
  /\ stage = "idle"
  /\ \E i \in DOMAIN conversions : conversions[i].status = "pending"
  /\ stage' = "batch"
  /\ snapshot' = conversions
  /\ isProcessing' = TRUE
  /\ overallProgress' = Percent(0, 1)
  /\ UNCHANGED <<conversions, validationErrors, rows, answer>>
  /\ UNCHANGED <<mapperIn, jsonObj, formatted, fileType>>
  /\ UNCHANGED facade

\* After await Promise.all(promises): the progress, from the conversions
\* that convertAll sees.
ReportProgress ==
  /\ stage = "batch"
  /\ \A i \in DOMAIN conversions : conversions[i].at = "done"
  /\ stage' = "reported"
  /\ overallProgress' = Percent(Completed(snapshot), Len(snapshot))
  /\ UNCHANGED <<conversions, isProcessing, snapshot, validationErrors, rows,
                 answer>>
  /\ UNCHANGED <<mapperIn, jsonObj, formatted, fileType>>
  /\ UNCHANGED facade

\* finally: setIsProcessing(false); setOverallProgress(100)
Finish ==
  /\ stage = "reported"
  /\ stage' = "finished"
  /\ isProcessing' = FALSE
  /\ overallProgress' = Percent(1, 1)
  /\ UNCHANGED <<conversions, snapshot, validationErrors, rows, answer>>
  /\ UNCHANGED <<mapperIn, jsonObj, formatted, fileType>>
  /\ UNCHANGED facade

\* batch.map(async conversion => ...): the callbacks start in the order of
\* the batch, and each runs to its await of conversion.file.text().
Start(i) ==
  /\ stage = "batch"
  /\ conversions[i].at = "idle"
  /\ \A j \in 1..(i - 1) : conversions[j].at # "idle"
  /\ conversions' =
       [conversions EXCEPT ![i].status = "converting", ![i].at = "text"]
  /\ UNCHANGED facade
  /\ UNCHANGED mapper
  /\ UNCHANGED views

\* The event loop resumes the callback of file i where it is suspended and
\* runs it to its next await: after file.text() the structure check, which
\* may reject the text, and the call of convertXmlToJson; inside
\* convertXmlToJson the rest of the call; after the await of
\* measurePerformance the success or the catch.
Resume(i) ==
  LET conversion == conversions[i]
      call == Call(conversion.file, conversionCache, now,
                   conversion.at = "lookup")
  IN /\ conversion.at \in {"text", "lookup", "measure"}
     /\ stage = "batch"
     /\ UNCHANGED <<now, ticks, calls, last, stored>>
     /\ UNCHANGED mapper
     /\ UNCHANGED views
     /\ IF conversion.at = "measure"
        THEN /\ conversions' =
                  [conversions EXCEPT
                     ![i].status = IF conversion.out.ok THEN "success" ELSE "error",
                     ![i].at = "done"]
             /\ UNCHANGED conversionCache
        ELSE \/ /\ conversion.at = "text"
                /\ conversions' =
                     [conversions EXCEPT
                        ![i].status = "error", ![i].at = "done",
                        ![i].out = Failure("InvalidStructure",
                                           Message(<<"Invalid XML: ">>), FALSE)]
                /\ UNCHANGED conversionCache
             \/ /\ conversions' =
                     [conversions EXCEPT
                        ![i].at = call.at, ![i].out = call.out,
                        ![i].hit = call.hit]
                /\ conversionCache' = call.cache

BulkNext ==
  \/ ConvertAll
  \/ \E i \in 1..BatchSize : Start(i) \/ Resume(i)
  \/ ReportProgress
  \/ Finish
  \/ Tick

BulkSpec == BulkInit /\ [][BulkNext]_vars

----------------------------------------------------------------------------
(* The conversions table under row level security                          *)

MaxRows == 3

\* auth.users, and the role user_profiles holds of each user.
Users == {"developer", "admin"}

role == [u \in Users |-> u]

\* The database roles a request comes in with; auth.uid() is null for anon.
Sessions ==
  {[to |-> "anon", uid |-> "null"]}
  \cup {[to |-> "authenticated", uid |-> u] : u \in Users}

\* CREATE POLICY ... ON conversions: the command, the role, and the
\* expression of USING or WITH CHECK.
Policies ==
  {[name |-> "Users can view own conversions", for |-> "SELECT",
    to |-> "authenticated", expr |-> "auth.uid() = user_id"],
   [name |-> "Authenticated users can create conversions", for |-> "INSERT",
    to |-> "authenticated", expr |-> "auth.uid() = user_id"],
   [name |-> "Anonymous users can create conversions", for |-> "INSERT",
    to |-> "anon", expr |-> "user_id IS NULL"],
   [name |-> "Users can delete own conversions", for |-> "DELETE",
    to |-> "authenticated", expr |-> "auth.uid() = user_id"]}

\* The expression of a policy on a row; a comparison with null is not true.
Using(expr, session, row) ==
  IF expr = "user_id IS NULL"
  THEN row.user_id = "null"
  ELSE session.uid # "null" /\ row.user_id # "null"
       /\ session.uid = row.user_id

\* ENABLE ROW LEVEL SECURITY: a command reaches a row when a policy for the
\* command and the role of the session holds on it, and no row otherwise.
Permitted(command, session, row) ==
  \E policy \in Policies :
    /\ policy.for = command
    /\ policy.to = session.to
    /\ Using(policy.expr, session, row)

PolicyInit ==
  /\ FacadeInit
  /\ ViewInit
  /\ stage = "idle"
  /\ mapperIn = [text |-> <<>>, preserveAttributes |-> TRUE]
  /\ jsonObj = Undefined
  /\ formatted = NoFormat
  /\ fileType = "null"
  /\ conversions = NoBatch

PolicyFrame ==
  /\ UNCHANGED facade
  /\ UNCHANGED mapper
  /\ UNCHANGED <<conversions, isProcessing, overallProgress, snapshot,
                 validationErrors>>

\* INSERT INTO conversions of a row with a new id: refused unless WITH CHECK
\* holds on the new row.
Insert(session, user_id) ==
  \E id \in 1..MaxRows :
    LET row == [id |-> id, user_id |-> user_id]
        ok == Permitted("INSERT", session, row)
    IN /\ \A r \in rows : r.id # id
       /\ rows' = IF ok THEN rows \cup {row} ELSE rows
       /\ answer' = [op |-> "insert", session |-> session, ok |-> ok,
                     rows |-> {row}]
       /\ PolicyFrame

\* SELECT * FROM conversions: the rows the policies let the session see.
Select(session) ==
  /\ rows' = rows
  /\ answer' = [op |-> "select", session |-> session, ok |-> TRUE,
                rows |-> {r \in rows : Permitted("SELECT", session, r)}]
  /\ PolicyFrame

\* DELETE FROM conversions WHERE id = ...: the row goes when the session
\* may see it and may delete it.
Delete(session, id) ==
  LET gone == {r \in rows : /\ r.id = id
                            /\ Permitted("SELECT", session, r)
                            /\ Permitted("DELETE", session, r)}
  IN /\ rows' = rows \ gone
     /\ answer' = [op |-> "delete", session |-> session, ok |-> TRUE,
                   rows |-> gone]
     /\ PolicyFrame

PolicyNext ==
  \E session \in Sessions :
    \/ \E user_id \in Users \cup {"null"} : Insert(session, user_id)
    \/ Select(session)
    \/ \E id \in 1..MaxRows : Delete(session, id)

PolicySpec == PolicyInit /\ [][PolicyNext]_vars

----------------------------------------------------------------------------
(* Claims about the facade                                                 *)

Converted == last.op = "convert"

LastDoc == Docs[last.doc]

\* The cache key of the latest call, and the key of every call of the model.
KeyOf == [r \in Requests |-> CacheKey(Trim(Docs[r[1]]), r[2])]

LastKey == KeyOf[<<last.doc, last.options>>]

\* The input is empty or holds white space only.
Blank(s) == \A i \in DOMAIN s : IsWs(s[i])

\* The first token of the input that is not white space.
FirstNonWs(s) ==
  s[CHOOSE i \in DOMAIN s : ~IsWs(s[i]) /\ \A j \in 1..(i - 1) : IsWs(s[j])]

\* The token's spelling starts with '<'.
SpelledWithTagOpen(tok) == tok.k \in {"open", "empty", "close", "cdo"}

WellFormedDoc == [d \in DOMAIN Docs |-> WellFormed(Docs[d])]

\* The diagnostics of the parser.
Diagnostics ==
  {<<"Start tag expected, '<' not found">>,
   <<"Extra content at the end of the document">>,
   <<"Premature end of data in tag">>,
   <<"Document is empty">>,
   <<"Attribute redefined">>,
   <<"Opening and ending tag mismatch">>,
   <<"CData section not finished">>,
   <<"Sequence ']]>' not allowed in content">>}

\* The step is a call of convertXmlToJson.
IsCall == calls' = calls + 1

C2_EmptyInput ==
  (Converted /\ Blank(LastDoc)) =>
    /\ ~last.out.ok /\ last.out.kind = "EmptyInput"
    /\ last.out.text = Message(<<"XML content is empty">>)
    /\ ~last.hit /\ ~last.out.parsed

\* A white-space-only input converted while the cache holds an entry.
C2_Witness ==
  /\ Converted /\ Blank(LastDoc) /\ LastDoc # <<>>
  /\ conversionCache # EmptyMap

\* C3: a call whose input has a first non-white-space character other than
\* '<' throws 'Invalid XML: Content must start with a tag', without a cache
\* hit and without the parser; an input whose first non-white-space
\* character is '<' is not rejected with that error.
C3_MalformedInput ==
  (Converted /\ ~Blank(LastDoc)) =>
    IF SpelledWithTagOpen(FirstNonWs(LastDoc))
    THEN last.out.kind # "MalformedInput"
    ELSE /\ ~last.out.ok /\ last.out.kind = "MalformedInput"
         /\ last.out.text = Message(<<"Invalid XML: Content must start with a tag">>)
         /\ ~last.hit /\ ~last.out.parsed

\* An input that starts with text is rejected while the cache holds an entry.
C3_Witness ==
  /\ Converted /\ ~Blank(LastDoc) /\ ~SpelledWithTagOpen(FirstNonWs(LastDoc))
  /\ conversionCache # EmptyMap

\* C4: a call whose input starts with '<' and is not well-formed throws a
\* parse error carrying the parser's diagnostic, and the Alteryx extractor
\* does not run.
C4_IllFormedRejected ==
  (Converted /\ ~Blank(LastDoc) /\ SpelledWithTagOpen(FirstNonWs(LastDoc))
     /\ ~WellFormedDoc[last.doc]) =>
    /\ ~last.out.ok /\ last.out.kind = "ParseError"
    /\ \E diag \in Diagnostics : last.out.text = Message(<<"Invalid XML: ">> \o diag)
    /\ ~last.out.extracted

\* Every cache entry holds the text of a successful conversion of its key.
EntryIsOutput ==
  \A k \in DOMAIN conversionCache :
    \E r \in Requests :
      /\ KeyOf[r] = k /\ UseCacheOf(r[2])
      /\ Processed[r[1], r[2]].ok
      /\ conversionCache[k].result = Processed[r[1], r[2]].text

\* C5: a call that throws leaves the cache as it was, and every cache entry
\* holds the complete output of a successful conversion.
C5_FailureLeavesCache ==
  /\ []EntryIsOutput
  /\ [][(IsCall /\ ~last'.out.ok) => conversionCache' = conversionCache]_vars

\* A call that threw inside the mapper while the cache holds an entry.
C5_Witness ==
  /\ Converted /\ last.out.kind = "TypeError"
  /\ conversionCache # EmptyMap

\* The options with every absent property set to its default.
WithDefaults(o) ==
  Options(IF o.preserveAttributes = "absent" THEN "true" ELSE o.preserveAttributes,
          IF o.outputFormat = "absent" THEN "pretty" ELSE o.outputFormat,
          IF o.useCache = "absent" THEN "true" ELSE o.useCache)

\* C6: a call with the options or some option omitted returns what the call
\* with the defaults written out returns; with useCache omitted its result
\* is in the cache afterwards; and for an input sent to the Alteryx
\* extractor the result is the same for every preserveAttributes.
C6_Defaults ==
  (Converted /\ Validate(Trim(LastDoc)).ok) =>
    LET explicit == Processed[last.doc, WithDefaults(last.options)] IN
      /\ last.out.ok = explicit.ok
      /\ last.out.text = explicit.text
      /\ (last.options.useCache = "absent" /\ explicit.ok) =>
           /\ LastKey \in DOMAIN conversionCache
           /\ conversionCache[LastKey].result = last.out.text
      /\ Processed[last.doc, last.options].extracted =>
           \A pa \in {"absent", "true", "false"} :
             Processed[last.doc, [WithDefaults(last.options) EXCEPT
                                    !.preserveAttributes = pa]].text = last.out.text

\* A call with the options omitted that was served from the cache.
C6_Witness == Converted /\ ~last.options.given /\ last.hit

----------------------------------------------------------------------------
(* Claims about the formatter and the generic mapper, under MapperSpec     *)

\* The mapper ran on the document of this state.
MappedByMapper == stage # "input" /\ detectFileType(mapperIn.text) = "generic"

\* The element handed to the mapper and its child elements.
MappedRoot == documentElement(parseFromString(mapperIn.text))

MappedKids == children(MappedRoot)

\* The text without its white space.
StripWs(a) == SelectSeq(a, LAMBDA x : x.k # "ws")

Openers == {Punct("{"), Punct("[")}

Closers == {Punct("}"), Punct("]")}

\* The number of containers open at position i of the text.
Depth(a, i) ==
  Cardinality({j \in 1..(i - 1) : a[j] \in Openers})
    - Cardinality({j \in 1..(i - 1) : a[j] \in Closers})

\* The number of spaces that follow position i directly.
IndentAfter(a, i) ==
  CHOOSE r \in 0..(Len(a) - i) :
    /\ \A j \in 1..r : a[i + j] = Ws(" ")
    /\ i + r = Len(a) \/ a[i + r + 1] # Ws(" ")

\* The white space of the text is that of an indentation by gap spaces per
\* level: none at all when gap = 0; else a line break after every comma and
\* every opener of a container that is not empty and before its closer, each
\* followed by gap spaces per open container, and one space after a colon.
Indented(a, gap) ==
  IF gap = 0 THEN StripWs(a) = a
  ELSE \A i \in DOMAIN a :
    /\ a[i] = Ws("\n") =>
         LET r == IndentAfter(a, i) IN
           /\ i + r < Len(a)
           /\ a[i + r + 1].k # "ws"
           /\ r = gap * (Depth(a, i) - IF a[i + r + 1] \in Closers THEN 1 ELSE 0)
    /\ a[i] = Ws(" ") =>
         /\ i > 1 /\ i < Len(a)
         /\ a[i - 1] \in {Ws(" "), Ws("\n"), Punct(":")}
         /\ a[i - 1] = Punct(":") => a[i + 1].k # "ws"
    /\ a[i] = Punct(":") => a[i + 1] = Ws(" ")
    /\ a[i] = Punct(",") => a[i + 1] = Ws("\n")
    /\ a[i] \in Openers => a[i + 1] = Ws("\n") \/ a[i + 1] \in Closers
    /\ (a[i] \in Closers /\ a[i - 1] \notin Openers) =>
         \E j \in 1..(i - 1) :
           a[j] = Ws("\n") /\ \A h \in (j + 1)..(i - 1) : a[h] = Ws(" ")

\* The indentation formatJsonOutput is to use for an outputFormat.
GapOf(format) ==
  CASE format = "minified" -> 0
    [] format = "compact" -> 1
    [] OTHER -> 2

\* C7: the text of a result in any format parses back to what its minified
\* text parses back to, is the minified text once its white space is taken
\* out, is indented by 2 spaces (pretty), 1 space (compact) or has no white
\* space (minified), and is the pretty text when the format is absent or
\* not one of the three.
C7_Formats ==
  stage = "formatted" =>
    LET minified == formatJsonOutput(jsonObj, "minified") IN
      /\ JsonParse(formatted.text) = JsonParse(minified)
      /\ StripWs(formatted.text) = minified
      /\ Indented(formatted.text, GapOf(formatted.format))
      /\ formatted.format \notin {"compact", "minified"} =>
           formatted.text = formatJsonOutput(jsonObj, "pretty")

\* A result that holds a sequence of two values or more, formatted compact.
C7_Witness ==
  /\ stage = "formatted" /\ formatted.format = "compact"
  /\ jsonObj.t = "object"
  /\ \E i \in DOMAIN jsonObj.m :
       jsonObj.m[i].val.t = "array" /\ Len(jsonObj.m[i].val.m) >= 2

\* The child elements of the mapped element that have the tag name.
Named(name) == SelectSeq(MappedKids, LAMBDA c : c.nodeName = name)

\* C8: for every tag name with k child elements, the output is a mapping
\* that holds under that key the mapped value of the one child when k = 1
\* and the sequence of the k mapped values in document order when k >= 2.
C8_RepeatedTags ==
  MappedByMapper =>
    \A i \in DOMAIN MappedKids :
      LET same == Named(MappedKids[i].nodeName) IN
        /\ jsonObj.t = "object"
        /\ HasOwn(jsonObj, MappedKids[i].nodeName)
        /\ Get(jsonObj, MappedKids[i].nodeName) =
             IF Len(same) = 1
             THEN xmlToJson(same[1], mapperIn.preserveAttributes)
             ELSE Arr([j \in DOMAIN same |->
                         KV("", xmlToJson(same[j], mapperIn.preserveAttributes))])

\* The number of mapped child values a value holds: one for each member
\* other than '@attributes' and '#text', and one for each member of a
\* sequence.
RECURSIVE MappedFrom(_, _)
MappedFrom(v, i) ==
  IF i > Len(v.m) THEN 0
  ELSE (IF v.m[i].key \in {"@attributes", "#text"} THEN 0
        ELSE IF v.m[i].val.t = "array" THEN Len(v.m[i].val.m)
        ELSE 1) + MappedFrom(v, i + 1)

MappedCount(v) == IF v.t = "object" THEN MappedFrom(v, 1) ELSE 0

\* C9: the output of the mapper holds as many mapped child values as the
\* element has child elements.
C9_NoSiblingDropped ==
  MappedByMapper => MappedCount(jsonObj) = Len(MappedKids)

\* The text of the element without the white space around it.
TrimmedText(xml) ==
  LET s == textContent(xml)
      inked == {i \in DOMAIN s : ~IsWs(T(s[i]))}
  IN IF inked = {} THEN <<>>
     ELSE SubSeq(s, CHOOSE i \in inked : \A j \in inked : i <= j,
                    CHOOSE i \in inked : \A j \in inked : j <= i)

\* The mapping of attribute names to values.
AttributesOf(xml) ==
  Obj([i \in DOMAIN xml.attributes |->
         KV(xml.attributes[i].an, Str(<<xml.attributes[i].av>>))])

\* What an element with text nodes only is to map to.
TextOnlyValue(xml, preserveAttributes) ==
  LET recorded == preserveAttributes /\ xml.attributes # <<>> IN
    CASE TrimmedText(xml) # <<>> /\ ~recorded -> Str(TrimmedText(xml))
      [] TrimmedText(xml) # <<>> /\ recorded ->
           Obj(<<KV("@attributes", AttributesOf(xml)),
                 KV("#text", Str(TrimmedText(xml)))>>)
      [] TrimmedText(xml) = <<>> /\ recorded ->
           Obj(<<KV("@attributes", AttributesOf(xml))>>)
      [] OTHER -> EmptyObj

\* The element has child nodes, all of them text nodes.
TextOnly(xml) ==
  xml.childNodes # <<>> /\ \A i \in DOMAIN xml.childNodes : xml.childNodes[i].nodeType = 3

\* C10: an element whose only children are text nodes maps to its trimmed
\* text when no attributes were recorded and the text is not empty, to
\* '@attributes' and '#text' when attributes were recorded and the text is
\* not empty, and to the attributes alone or the empty mapping when the
\* trimmed text is empty; so does each such element below the mapped one.
C10_TextOnly ==
  MappedByMapper =>
    /\ TextOnly(MappedRoot) =>
         jsonObj = TextOnlyValue(MappedRoot, mapperIn.preserveAttributes)
    /\ \A i \in DOMAIN MappedKids :
         TextOnly(MappedKids[i]) =>
           xmlToJson(MappedKids[i], mapperIn.preserveAttributes)
             = TextOnlyValue(MappedKids[i], mapperIn.preserveAttributes)

\* An element with an attribute and text between white space, mapped with
\* its attributes.
C10_Witness ==
  /\ stage = "mapped" /\ MappedByMapper /\ TextOnly(MappedRoot)
  /\ textContent(MappedRoot) # TrimmedText(MappedRoot)
  /\ HasOwn(jsonObj, "@attributes")
  /\ Get(jsonObj, "#text") = Str(TrimmedText(MappedRoot))

\* The number of '@attributes' keys in a value, at any depth.
RECURSIVE AttrKeys(_)
RECURSIVE AttrKeysFrom(_, _)
AttrKeysFrom(v, i) ==
  IF i > Len(v.m) THEN 0
  ELSE (IF v.t = "object" /\ v.m[i].key = "@attributes" THEN 1 ELSE 0)
       + AttrKeys(v.m[i].val) + AttrKeysFrom(v, i + 1)

AttrKeys(v) == IF v.t \in {"object", "array"} THEN AttrKeysFrom(v, 1) ELSE 0

\* The output held for the i-th child element of the mapped element: the
\* value under its tag name, or the member at its place when the value is
\* the sequence of the children of that name.
HeldFor(i) ==
  LET same == Named(MappedKids[i].nodeName)
      held == Get(jsonObj, MappedKids[i].nodeName)
      place == Len(SelectSeq(SubSeq(MappedKids, 1, i),
                             LAMBDA c : c.nodeName = MappedKids[i].nodeName))
  IN IF Len(same) = 1 THEN held
     ELSE IF held.t = "array" /\ Len(held.m) = Len(same) THEN held.m[place].val
     ELSE Undefined

\* C11: with preserveAttributes = false the output of the mapper has no
\* '@attributes' key at any depth; with preserveAttributes = true the mapped
\* element and each of its child elements that carries attributes and is
\* represented as a mapping has under '@attributes' all of its attributes.
C11_AttributeFlag ==
  (stage = "mapped" /\ detectFileType(mapperIn.text) = "generic"
     /\ jsonObj.t # "throw") =>
    IF ~mapperIn.preserveAttributes THEN AttrKeys(jsonObj) = 0
    ELSE /\ (jsonObj.t = "object" /\ MappedRoot.attributes # <<>>) =>
              /\ HasOwn(jsonObj, "@attributes")
              /\ Get(jsonObj, "@attributes") = AttributesOf(MappedRoot)
         /\ \A i \in DOMAIN MappedKids :
              (jsonObj.t = "object" /\ HeldFor(i).t = "object"
                 /\ MappedKids[i].attributes # <<>>) =>
                /\ HasOwn(HeldFor(i), "@attributes")
                /\ Get(HeldFor(i), "@attributes") = AttributesOf(MappedKids[i])

\* The atoms a token is spelled with, apart from the punctuation.
AtomsOf(tok) ==
  {tok.n} \cup {tok.a[i].an : i \in DOMAIN tok.a} \cup {tok.a[i].av : i \in DOMAIN tok.a}

\* The text holds 'AlteryxDocument': as a name, a value or a word of text.
HasRootMarker(text) ==
  \/ \E i \in DOMAIN text : "AlteryxDocument" \in AtomsOf(text[i])
  \/ \E i \in 1..(Len(text) - 1) : text[i] = T("Alteryx") /\ text[i + 1] = T("Document")

\* The text holds a start tag of that name whose first attribute is attr.
HasTagMarker(text, name, attr) ==
  \E i \in DOMAIN text :
    /\ text[i].k \in {"open", "empty"} /\ text[i].n = name
    /\ text[i].a # <<>> /\ text[i].a[1].an = attr

\* The text holds an attribute of that name.
HasAttributeMarker(text, attr) ==
  \E i \in DOMAIN text : \E j \in DOMAIN text[i].a : text[i].a[j].an = attr

\* The text holds one of the six markers.
HasMarker(text) ==
  \/ HasRootMarker(text)
  \/ HasTagMarker(text, "Node", "ToolID")
  \/ HasTagMarker(text, "Connection", "Origin")
  \/ HasTagMarker(text, "GuiSettings", "Plugin")
  \/ HasAttributeMarker(text, "yxmdVer")
  \/ HasTagMarker(text, "EngineSettings", "EngineDll")

HasProperties(text) == \E i \in DOMAIN text : "Properties" \in AtomsOf(text[i])

----------------------------------------------------------------------------
(* Claims about the extractor, under WorkflowSpec                          *)

\* The extractor ran on the document of this state.
Extracted == stage # "input" /\ detectFileType(mapperIn.text) = "yxmd"

WorkflowDoc == parseFromString(mapperIn.text)

\* The elements of that name below the node, in document order.
ElementsNamed(node, name) ==
  SelectSeq(Descendants(node), LAMBDA d : d.nodeType = 1 /\ d.nodeName = name)

\* The attribute is on the element; its value, when it is.
HasAttribute(node, name) == \E i \in DOMAIN node.attributes : node.attributes[i].an = name

ValueOfAttribute(node, name) ==
  node.attributes[CHOOSE i \in DOMAIN node.attributes : node.attributes[i].an = name].av

\* The members of the workflow's field of that name.
Field(name) == Get(jsonObj, name).m

\* The Plugin attribute of the first GuiSettings element below the node
\* counts as absent when there is no such element or attribute, and also,
\* if emptyIsAbsent, when its value is the empty string.
PluginAbsent(node, emptyIsAbsent) ==
  LET gui == ElementsNamed(node, "GuiSettings") IN
    \/ gui = <<>>
    \/ ~HasAttribute(gui[1], "Plugin")
    \/ emptyIsAbsent /\ ValueOfAttribute(gui[1], "Plugin") = ""

PluginOf(node) == ValueOfAttribute(ElementsNamed(node, "GuiSettings")[1], "Plugin")

\* One tool per Node element in document order, with the id, name, type
\* and plugin the claim gives.
ToolsAsClaimed(emptyIsAbsent) ==
  LET nodes == ElementsNamed(WorkflowDoc, "Node") IN
    /\ Get(jsonObj, "tools").t = "array"
    /\ Len(Field("tools")) = Len(nodes)
    /\ \A i \in DOMAIN nodes :
         LET tool == Field("tools")[i].val
             absent == PluginAbsent(nodes[i], emptyIsAbsent)
         IN /\ Get(tool, "id") =
                 Str(<<IF HasAttribute(nodes[i], "ToolID")
                       THEN ValueOfAttribute(nodes[i], "ToolID") ELSE "">>)
            /\ Get(tool, "name") =
                 Str(<<IF absent THEN "Unknown" ELSE PluginOf(nodes[i])>>)
            /\ Get(tool, "type") = Get(tool, "name")
            /\ Get(tool, "plugin") = Str(<<IF absent THEN "" ELSE PluginOf(nodes[i])>>)

\* C14, as stated: one tool per Node element in document order; id is the
\* ToolID attribute or ''; name, type and plugin are the Plugin attribute of
\* the GuiSettings element below the node, and 'Unknown', 'Unknown' and ''
\* when the element or the attribute is absent.
C14_AsStated == Extracted => ToolsAsClaimed(FALSE)

\* C14, amended: the same, with the defaults also when the Plugin attribute
\* is the empty string.
C14_Tools == Extracted => ToolsAsClaimed(TRUE)

\* A document with a tool nested in a tool and a tool with an empty Plugin.
C14_Witness ==
  /\ stage = "mapped" /\ Extracted
  /\ \E n \in Range(ElementsNamed(WorkflowDoc, "Node")) :
       ElementsNamed(n, "Node") # <<>>
  /\ \E g \in Range(ElementsNamed(WorkflowDoc, "GuiSettings")) :
       HasAttribute(g, "Plugin") /\ ValueOfAttribute(g, "Plugin") = ""

\* The decimal numerals among the coordinate values of the documents.
IntegerValue(v) ==
  CASE v = "0" -> 0
    [] v = "54" -> 54
    [] v = "162" -> 162
    [] OTHER -> -1

\* The coordinate the claim gives a tool for an attribute of the first
\* GuiSettings element below its node: the attribute's integer, and 0 when
\* the element or the attribute is absent or the value is no integer.
CoordinateAsClaimed(node, name) ==
  LET gui == ElementsNamed(node, "GuiSettings") IN
    IF gui = <<>> \/ ~HasAttribute(gui[1], name) THEN 0
    ELSE IF IntegerValue(ValueOfAttribute(gui[1], name)) >= 0
    THEN IntegerValue(ValueOfAttribute(gui[1], name))
    ELSE 0

\* The value starts with digits and goes on with something else.
StartsWithDigits(node, name) ==
  LET gui == ElementsNamed(node, "GuiSettings") IN
    /\ gui # <<>> /\ HasAttribute(gui[1], name)
    /\ ValueOfAttribute(gui[1], name) \in {"12px", "7.9"}

\* C15: position.x and position.y of every tool are integers: the value of
\* the X and Y attribute when it is an integer, and 0 when the attribute or
\* the GuiSettings element is absent or the value is no integer.  (A value
\* that starts with digits may give 0 or the integer it starts with.)
C15_Positions ==
  Extracted =>
    LET nodes == ElementsNamed(WorkflowDoc, "Node") IN
      \A i \in DOMAIN nodes :
        LET position == Get(Field("tools")[i].val, "position")
            Right(coordinate, name) ==
              /\ coordinate.t = "number"
              /\ \/ coordinate.n = CoordinateAsClaimed(nodes[i], name)
                 \/ StartsWithDigits(nodes[i], name)
        IN Right(Get(position, "x"), "X") /\ Right(Get(position, "y"), "Y")

\* The entry the claim gives a child of a Properties element: its raw inner
\* markup when it holds nested markup, its text content when it holds
\* plain text.
EntryAsClaimed(child) ==
  IF children(child) # <<>> THEN Str(innerHTML(child)) ELSE Str(textContent(child))

\* The mapping holds an entry for each direct child of the element, keyed
\* by the tag name (the last child of a name decides), and nothing else.
FlattenedAsClaimed(mapping, element) ==
  LET kids == children(element) IN
    /\ mapping.t = "object"
    /\ \A i \in DOMAIN kids :
         /\ HasOwn(mapping, kids[i].nodeName)
         /\ (\A j \in (i + 1)..Len(kids) : kids[j].nodeName # kids[i].nodeName) =>
              Get(mapping, kids[i].nodeName) = EntryAsClaimed(kids[i])
    /\ \A j \in DOMAIN mapping.m : \E i \in DOMAIN kids : kids[i].nodeName = mapping.m[j].key

\* C16: the configuration of a tool has an entry for each direct child of
\* the first Properties element below its node, keyed by tag name, with the
\* child's text content when it holds plain text and its raw inner markup
\* when it holds nested markup; it is the empty mapping when the node has
\* no Properties element.
C16_Configuration ==
  Extracted =>
    LET nodes == ElementsNamed(WorkflowDoc, "Node") IN
      \A i \in DOMAIN nodes :
        LET configuration == Get(Field("tools")[i].val, "configuration")
            properties == ElementsNamed(nodes[i], "Properties")
        IN IF properties = <<>> THEN configuration = EmptyObj
           ELSE FlattenedAsClaimed(configuration, properties[1])

\* The attribute is on the element and, if nonEmpty, its value is not ''.
Present(node, name, nonEmpty) ==
  HasAttribute(node, name) /\ (nonEmpty => ValueOfAttribute(node, name) # "")

\* One connection per Connection element in document order; origin and
\* destination are the attributes or ''; originOutput and destinationInput
\* are there exactly when the attribute is present, and are never ''.
ConnectionsAsClaimed(nonEmpty) ==
  LET conns == ElementsNamed(WorkflowDoc, "Connection")
      Optional(connection, key, element, name) ==
        /\ HasOwn(connection, key) <=> Present(element, name, nonEmpty)
        /\ HasOwn(connection, key) =>
             /\ Get(connection, key) = Str(<<ValueOfAttribute(element, name)>>)
             /\ Get(connection, key) # Str(<<"">>)
      Required(connection, key, element, name) ==
        Get(connection, key) =
          Str(<<IF HasAttribute(element, name)
                THEN ValueOfAttribute(element, name) ELSE "">>)
  IN /\ Get(jsonObj, "connections").t = "array"
     /\ Len(Field("connections")) = Len(conns)
     /\ \A i \in DOMAIN conns :
          LET connection == Field("connections")[i].val IN
            /\ Required(connection, "origin", conns[i], "Origin")
            /\ Required(connection, "destination", conns[i], "Destination")
            /\ Optional(connection, "originOutput", conns[i], "OriginOutput")
            /\ Optional(connection, "destinationInput", conns[i], "DestinationInput")

\* C17, as stated: one connection per Connection element in document
\* order, origin and destination from the attributes or '', whatever the
\* tool ids; originOutput and destinationInput present exactly when the
\* attribute is present on the element, and never the empty string.
C17_AsStated == Extracted => ConnectionsAsClaimed(FALSE)

\* C17, amended: the same, with originOutput and destinationInput present
\* exactly when the attribute is present and its value is not empty.
C17_Connections == Extracted => ConnectionsAsClaimed(TRUE)

\* A connection to a tool that does not exist, with both optional
\* attributes, next to one with an empty OriginOutput.
C17_Witness ==
  /\ stage = "mapped" /\ Extracted
  /\ ElementsNamed(WorkflowDoc, "Node") = <<>>
  /\ \E c \in Range(Field("connections")) :
       HasOwn(c.val, "originOutput") /\ HasOwn(c.val, "destinationInput")
  /\ \E e \in Range(ElementsNamed(WorkflowDoc, "Connection")) :
       HasAttribute(e, "OriginOutput") /\ ValueOfAttribute(e, "OriginOutput") = ""

\* The Properties elements of the document that are not below a Node.
RECURSIVE OutsideNodes(_)
OutsideNodes(node) ==
  Flatten([i \in DOMAIN node.childNodes |->
             LET kid == node.childNodes[i] IN
               IF kid.nodeType # 1 \/ kid.nodeName = "Node" THEN <<>>
               ELSE (IF kid.nodeName = "Properties" THEN <<kid>> ELSE <<>>)
                    \o OutsideNodes(kid)])

\* C18: the properties of the workflow are flattened from the first
\* Properties element that is not below a Node, and are the empty mapping
\* when there is none; they are never taken from the Properties of a tool.
C18_WorkflowProperties ==
  Extracted =>
    LET outside == OutsideNodes(WorkflowDoc)
        properties == Get(jsonObj, "properties")
    IN IF outside = <<>> THEN properties = EmptyObj
       ELSE /\ properties.t = "object"
            /\ \A j \in DOMAIN properties.m :
                 \E kid \in Range(children(outside[1])) :
                   kid.nodeName = properties.m[j].key
            /\ \A kid \in Range(children(outside[1])) :
                 HasOwn(properties, kid.nodeName)

\* The Constant elements of the document and those with a name.
ConstantElements == ElementsNamed(WorkflowDoc, "Constant")

NamedConstant(element) == Present(element, "Name", TRUE)

\* The constants hold an entry for each named Constant element, from the
\* name to the text content (the last element of a name decides), and
\* nothing else.
ConstantsHeld(constants) ==
  /\ constants.t = "object"
  /\ \A i \in DOMAIN ConstantElements :
       NamedConstant(ConstantElements[i]) =>
         /\ HasOwn(constants, ValueOfAttribute(ConstantElements[i], "Name"))
         /\ (\A j \in (i + 1)..Len(ConstantElements) :
               ~(/\ NamedConstant(ConstantElements[j])
                 /\ ValueOfAttribute(ConstantElements[j], "Name")
                      = ValueOfAttribute(ConstantElements[i], "Name"))) =>
              Get(constants, ValueOfAttribute(ConstantElements[i], "Name"))
                = Str(textContent(ConstantElements[i]))
  /\ \A j \in DOMAIN constants.m :
       \E i \in DOMAIN ConstantElements :
         /\ NamedConstant(ConstantElements[i])
         /\ ValueOfAttribute(ConstantElements[i], "Name") = constants.m[j].key

\* C19, as stated: constants is absent when the document has no Constant
\* element; otherwise it is a mapping that is not empty and holds, for
\* every Constant element, an entry from its Name to its text content.
C19_AsStated ==
  Extracted =>
    IF ConstantElements = <<>> THEN ~HasOwn(jsonObj, "constants")
    ELSE /\ HasOwn(jsonObj, "constants")
         /\ Get(jsonObj, "constants") # EmptyObj
         /\ \A i \in DOMAIN ConstantElements : NamedConstant(ConstantElements[i])
         /\ ConstantsHeld(Get(jsonObj, "constants"))

\* C19, amended: constants is absent when the document has no Constant
\* element; otherwise it is a mapping that holds an entry for every
\* Constant element with a name that is not empty, and nothing else; it is
\* the empty mapping exactly when no Constant element has such a name.
C19_Constants ==
  Extracted =>
    IF ConstantElements = <<>> THEN ~HasOwn(jsonObj, "constants")
    ELSE /\ HasOwn(jsonObj, "constants")
         /\ ConstantsHeld(Get(jsonObj, "constants"))
         /\ Get(jsonObj, "constants") = EmptyObj
              <=> \A i \in DOMAIN ConstantElements : ~NamedConstant(ConstantElements[i])

\* A document whose only Constant element has no name: constants is empty.
C19_Witness ==
  /\ stage = "mapped" /\ Extracted
  /\ ConstantElements # <<>>
  /\ Get(jsonObj, "constants") = EmptyObj

----------------------------------------------------------------------------
(* Claims about concurrent conversions, under BulkSpec                     *)

\* What convertXmlToJson returns or throws for a file on its own.
Alone(d) ==
  LET valid == BulkValidated[d] IN IF valid.ok THEN BulkProcessed[d] ELSE valid

\* The conversion of file i has returned or thrown.
Returned(i) ==
  /\ i \in DOMAIN conversions
  /\ conversions[i].at \in {"measure", "done"}
  /\ conversions[i].out.kind # "InvalidStructure"

\* C20: no call of convertXmlToJson is ever suspended between its cache
\* lookup and its store, whatever the order in which the callbacks of a
\* batch are resumed and the clock advances; every call returns or throws
\* what the same call returns or throws on its own; and every entry of the
\* cache is the result of the input of its key.
C20_Uninterrupted ==
  /\ \A i \in DOMAIN conversions : conversions[i].at # "lookup"
  /\ \A i \in DOMAIN conversions :
       Returned(i) =>
         LET alone == Alone(conversions[i].file)
         IN /\ conversions[i].out.ok = alone.ok
            /\ conversions[i].out.kind = alone.kind
            /\ conversions[i].out.text = alone.text
  /\ \A d \in BulkFiles :
       BulkKeys[d] \in DOMAIN conversionCache =>
         conversionCache[BulkKeys[d]].result = Alone(d).text

\* Three files are in flight at once: the first parsed and stored, the
\* second, with the same key, was served from the cache before the first
\* callback went on, and the third still waits for its text.
C20_Witness ==
  /\ conversions # NoBatch
  /\ conversions[1].at = "measure" /\ ~conversions[1].hit /\ conversions[1].out.ok
  /\ conversions[2].at = "measure" /\ conversions[2].hit
  /\ conversions[1].file # conversions[2].file
  /\ conversions[3].at = "text"

----------------------------------------------------------------------------
(* Claims about convertAll of the bulk converter, under BulkSpec           *)

\* A step leaves the status of a file, or moves it from pending to
\* converting, or from converting to success or to error.
Lifecycle ==
  \A i \in DOMAIN conversions :
    \/ conversions'[i].status = conversions[i].status
    \/ conversions[i].status = "pending" /\ conversions'[i].status = "converting"
    \/ /\ conversions[i].status = "converting"
       /\ conversions'[i].status \in {"success", "error"}

\* A file in success holds its output, a file in error an error message.
Settled(conversion) ==
  \/ conversion.status = "success" /\ conversion.out.ok
  \/ /\ conversion.status = "error"
     /\ ~conversion.out.ok /\ conversion.out.kind # "none"

\* When convertAll has finished, every file is settled and isProcessing is
\* false.
FinishedSettled ==
  stage = "finished" =>
    /\ ~isProcessing
    /\ \A i \in DOMAIN conversions : Settled(conversions[i])

\* The progress reported after the batch is the share of the files that are
\* in success or in error.
ProgressIsShare ==
  stage = "reported" =>
    overallProgress.times100 * Len(conversions) =
      Completed(conversions) * 100 * overallProgress.over

\* C30: every pending file moves from pending over converting to success or
\* error and stays there; when convertAll finishes, every file is in success
\* with its output or in error with a message and isProcessing is false; and
\* the overall progress reported after each batch is the share of the files
\* in success or error at that moment.
C30_BulkLifecycle ==
  [](FinishedSettled /\ ProgressIsShare) /\ [][Lifecycle]_vars

\* What holds of C30: all but the reported progress.
C30_ButProgress == []FinishedSettled /\ [][Lifecycle]_vars

----------------------------------------------------------------------------
(* Further claims about the generic mapper, under MapperSpec               *)

\* The child nodes of the element hold text that is not blank.
Inked(xml) ==
  {i \in DOMAIN xml.childNodes :
     xml.childNodes[i].nodeType = 3 /\ TrimAtoms(xml.childNodes[i].nodeValue) # <<>>}

\* The element has a text node that is not blank and an element child.
Mixed(xml) ==
  Inked(xml) # {} /\ \E i \in DOMAIN xml.childNodes : xml.childNodes[i].nodeType = 1

\* The text nodes that are not blank and are reached while the mapping is
\* empty: no attribute is recorded and no element comes before them.
ReachedEmpty(xml, preserveAttributes) ==
  {i \in Inked(xml) :
     /\ ~(preserveAttributes /\ xml.attributes # <<>>)
     /\ \A j \in 1..(i - 1) : xml.childNodes[j].nodeType = 3}

\* What an element with text and element children is to map to.
MixedAsClaimed(xml, preserveAttributes, value) ==
  LET reached == ReachedEmpty(xml, preserveAttributes) IN
    IF reached # {}
    THEN value = Str(TrimAtoms(
                   xml.childNodes[CHOOSE i \in reached : \A j \in reached : i <= j]
                     .nodeValue))
    ELSE value.t = "throw" \/
         /\ value.t = "object"
         /\ ~HasOwn(value, "#text")
         /\ \A i \in DOMAIN xml.childNodes :
              xml.childNodes[i].nodeType = 1 =>
                HasOwn(value, xml.childNodes[i].nodeName)
         /\ \A j \in DOMAIN value.m :
              \/ value.m[j].key = "@attributes"
              \/ \E i \in DOMAIN xml.childNodes :
                   /\ xml.childNodes[i].nodeType = 1
                   /\ xml.childNodes[i].nodeName = value.m[j].key

RECURSIVE WithoutAttributes(_)
WithoutAttributes(v) ==
  IF v.t = "array"
  THEN Arr([i \in DOMAIN v.m |-> KV(v.m[i].key, WithoutAttributes(v.m[i].val))])
  ELSE IF v.t = "object"
  THEN LET kept == SelectSeq(v.m, LAMBDA e : e.key # "@attributes")
           inner == [i \in DOMAIN kept |->
                       KV(kept[i].key, WithoutAttributes(kept[i].val))]
       IN IF Len(inner) = 1 /\ inner[1].key = "#text" THEN inner[1].val
          ELSE Obj(inner)
  ELSE v

\* C29: the output of the mapper with preserveAttributes = false is its
\* output with preserveAttributes = true without the '@attributes' entries
\* and with each mapping left with '#text' alone replaced by that text.
C29_FlagOnlyAttributes ==
  MappedByMapper =>
    IF mapperIn.preserveAttributes
    THEN WithoutAttributes(jsonObj) = xmlToJson(MappedRoot, FALSE)
    ELSE jsonObj = WithoutAttributes(xmlToJson(MappedRoot, TRUE))

----------------------------------------------------------------------------
(* Further claims about the cache, under Spec                              *)

\* The step is a call that parsed, returned and had caching enabled.
IsStore == IsCall /\ last'.out.ok /\ ~last'.hit /\ UseCacheOf(last'.options)

\* The key of the call of the step.
KeyOfStep == KeyOf[<<last'.doc, last'.options>>]

\* The age of the entry of key k.
Age(k) == now - conversionCache[k].timestamp

\* C23: a call that parsed, returned and had caching enabled leaves the
\* cache holding what it returned under its key, stamped with the time of
\* the call, and no entry older than the time-to-live; every other call and
\* the passing of time leave the cache as it was, expired entries included;
\* and a call is served from the cache only by an entry younger than the
\* time-to-live.
C23_LazyPurge ==
  [][/\ IsStore =>
          /\ KeyOfStep \in DOMAIN conversionCache'
          /\ conversionCache'[KeyOfStep]
               = [result |-> last'.out.text, timestamp |-> now]
          /\ \A k \in DOMAIN conversionCache' :
               ~(now - conversionCache'[k].timestamp > CACHE_DURATION)
          /\ \A k \in DOMAIN conversionCache :
               (k # KeyOfStep /\ ~(Age(k) > CACHE_DURATION)) =>
                 /\ k \in DOMAIN conversionCache'
                 /\ conversionCache'[k] = conversionCache[k]
     /\ (IsCall /\ ~IsStore) => conversionCache' = conversionCache
     /\ now' # now => conversionCache' = conversionCache
     /\ (IsCall /\ last'.hit) => Age(KeyOfStep) < CACHE_DURATION]_vars

\* A call has just stored its result, and an entry stored earlier and not
\* cleared since is gone from the cache.
C23_Witness ==
  /\ Converted /\ last.out.ok /\ ~last.hit /\ UseCacheOf(last.options)
  /\ LastKey \in DOMAIN conversionCache
  /\ conversionCache[LastKey].timestamp = now
  /\ \E k \in DOMAIN stored :
       ~stored[k].cleared /\ k \notin DOMAIN conversionCache

\* C24: a call served from the cache returns the text of the entry and
\* leaves the whole cache as it was; an entry that stays in the cache
\* changes only by a call with its key that parsed and stored; and an entry
\* leaves the cache only by clearConversionCache or, older than the
\* time-to-live, by the cleaning after a store.
C24_EntriesImmutable ==
  [][/\ (IsCall /\ last'.hit) =>
          /\ last'.out.text = conversionCache[KeyOfStep].result
          /\ conversionCache' = conversionCache
     /\ \A k \in DOMAIN conversionCache :
          /\ (k \in DOMAIN conversionCache'
                /\ conversionCache'[k] # conversionCache[k]) =>
               IsStore /\ KeyOfStep = k
          /\ k \notin DOMAIN conversionCache' =>
               \/ last'.op = "clear" /\ conversionCache' = EmptyMap
               \/ IsStore /\ KeyOfStep # k /\ Age(k) > CACHE_DURATION]_vars

\* A call has just stored under a second key, and the entry stored at an
\* earlier time under another key is still in the cache as it was stored.
C24_Witness ==
  /\ Converted /\ last.out.ok /\ ~last.hit /\ UseCacheOf(last.options)
  /\ \E k \in DOMAIN conversionCache :
       /\ k # LastKey
       /\ conversionCache[k].timestamp < now
       /\ conversionCache[LastKey].timestamp = now

\* C25: a call with useCache = false is never served from the cache: it
\* returns or throws what the checks and the parser make of its input,
\* whatever the cache holds, and leaves the cache as it was.
C25_CacheOff ==
  [][(IsCall /\ last'.options.useCache = "false") =>
       /\ ~last'.hit
       /\ last'.out = (IF Validated[last'.doc].ok
                       THEN Processed[last'.doc, last'.options]
                       ELSE Validated[last'.doc])
       /\ Validated[last'.doc].ok => last'.out.parsed
       /\ conversionCache' = conversionCache]_vars

\* A call with useCache = false parsed its input while the cache held an
\* entry of the same trimmed input that had not expired.
C25_Witness ==
  /\ Converted /\ last.options.useCache = "false" /\ last.out.parsed
  /\ \E r \in Requests :
       /\ Trim(Docs[r[1]]) = Trim(LastDoc)
       /\ Fresh(conversionCache, KeyOf[r], now)

\* The same options with caching switched off.
Uncached(o) == Options(o.preserveAttributes, o.outputFormat, "false")

\* C26: a call with caching enabled returns or throws what the conversion
\* of the same input with the same preserveAttributes and outputFormat and
\* with caching switched off returns or throws.
C26_Transparent ==
  (Converted /\ UseCacheOf(last.options)) =>
    LET fresh == IF Validated[last.doc].ok
                 THEN Processed[last.doc, Uncached(last.options)]
                 ELSE Validated[last.doc]
    IN /\ last.out.ok = fresh.ok
       /\ last.out.kind = fresh.kind
       /\ last.out.text = fresh.text

\* A call was served from the cache while the cache also held the text of
\* the same input under other options.
C26_Witness ==
  /\ Converted /\ last.hit
  /\ \E r \in Requests :
       /\ Trim(Docs[r[1]]) = Trim(LastDoc)
       /\ KeyOf[r] # LastKey
       /\ KeyOf[r] \in DOMAIN conversionCache
       /\ conversionCache[KeyOf[r]].result # last.out.text

----------------------------------------------------------------------------
(* Claims about the editor, under SyntaxSpec                               *)

\* What convertXmlToJson makes of the input of the editor.
Accepted(xmlString) ==
  /\ Validate(Trim(xmlString)).ok
  /\ Process(Trim(xmlString), EditorOptions).ok

\* C27: validateXmlSyntax returns no error for an input that is well
\* formed, whatever the lines its tags are on, and the editor refuses no
\* input that convertXmlToJson accepts.
C27_ValidatorAgrees ==
  /\ (stage # "input" /\ Trim(mapperIn.text) # <<>> /\ WellFormed(mapperIn.text)) =>
       validationErrors = <<>>
  /\ (stage = "handled" /\ Accepted(mapperIn.text)) => last.op = "convert"

----------------------------------------------------------------------------
(* Claims about the reported file type, under ReportSpec                   *)

\* C28: when a conversion has returned, the file type the view reports is
\* 'yxmd' exactly when the conversion went through the Alteryx extractor.
C28_ReportedIsDispatched ==
  (stage \in {"app", "bulk"} /\ last.out.ok) =>
    (fileType = "yxmd" <=> last.out.extracted)

----------------------------------------------------------------------------
(* Claims about the conversions table, under PolicySpec                    *)

Own(session) == {r \in rows : r.user_id = session.uid}

IsAdmin(session) ==
  session.to = "authenticated" /\ role[session.uid] = "admin"

\* The documented rules but the one on admin users.
UserRules ==
  LET session == answer.session
  IN /\ answer.op = "select" /\ session.to = "anon" => answer.rows = {}
     /\ answer.op = "select" /\ session.to = "authenticated"
          /\ ~IsAdmin(session)
        => answer.rows = Own(session)
     /\ answer.op = "delete" /\ session.to = "anon" => answer.rows = {}
     /\ answer.op = "delete" /\ session.to = "authenticated"
        => \A r \in answer.rows : r.user_id = session.uid
     /\ answer.op = "insert" /\ session.to = "anon"
        => (answer.ok <=> \A r \in answer.rows : r.user_id = "null")

\* An admin user sees every row of the table.
AdminSeesAll ==
  answer.op = "select" /\ IsAdmin(answer.session) => answer.rows = rows

\* C21: the policies on conversions implement the documented rules: an
\* authenticated user selects and deletes only rows whose user_id is their
\* own id, an anonymous user inserts rows with a null user_id only and
\* selects none, and an admin user views all conversions.
C21_PoliciesAsDocumented ==
  answer.op # "none" => UserRules /\ AdminSeesAll

\* What holds of C21: the rules for the users that are not admins, and an
\* admin user sees the rows of their own only.
C21_ButAdmin ==
  answer.op # "none" =>
    /\ UserRules
    /\ answer.op = "select" /\ IsAdmin(answer.session)
       => answer.rows = Own(answer.session)

============================================================================
